---- MODULE Spec2Model ----
(***************************************************************************)
(* A model of MilvusConnection (rag/utils/milvus_conn.py): the document    *)
(* store connector that maps createIdx / deleteIdx / indexExist / insert / *)
(* update / delete onto the requests of a schema-based vector engine.      *)
(*                                                                         *)
(* Python strings are sequences of characters, dictionaries are functions  *)
(* from keys (TLA+ strings) to values, and every request the connector     *)
(* sends to the engine is one step that the engine may answer or fail.     *)
(***************************************************************************)
EXTENDS Integers, Sequences, FiniteSets, Bags, TLC

VARIABLES
    colls,   \* the engine: collection name -> collection (existence, index, rows)
    dbs,     \* the engine: the names of the databases that exist
    pc,      \* per client: the request the running operation issues next
    op,      \* per client: the running (or last) operation and its arguments
    loc,     \* per client: the local variables of the running operation
    ret,     \* per client: how the last operation ended (value or exception)
    log,     \* per client: the log records the operation has emitted
    calls    \* per client: the engine requests the operation has issued, in order

vars == <<colls, dbs, pc, op, loc, ret, log, calls>>

(***************************************************************************)
(* Bounds of the model.                                                    *)
(***************************************************************************)
\* The engine holds at most MaxRows rows over all collections.
MaxRows == 2

(***************************************************************************)
(* Python values.                                                          *)
(***************************************************************************)
\* Python's None where a string is expected (a one-token marker, not a string).
None == <<"NONE">>

\* The empty dictionary.
EmptyDict == [k \in {} |-> <<>>]

\* `if knowledgebaseId:` : None and the empty string are falsy.
Truthy(v) == v # None /\ v # <<>>

\* f"{v}" : None formats as the four characters None.
PyFormat(v) == IF v = None THEN <<"N", "o", "n", "e">> ELSE v

\* s.replace("-", "_")
Replace(s) == [n \in 1..Len(s) |-> IF s[n] = "-" THEN "_" ELSE s[n]]

\* Typed values of a condition dictionary: isinstance(v, str) / isinstance(v, list).
PyStr(s) == [t |-> "str", s |-> s, l |-> <<>>]
PyList(l) == [t |-> "list", s |-> <<>>, l |-> l]
\* A number and a boolean (s is their str()): 5, True.
PyInt == [t |-> "int", s |-> <<"5">>, l |-> <<>>]
PyBool == [t |-> "bool", s |-> <<"True">>, l |-> <<>>]

DictSet(d, k, v) == [x \in DOMAIN d \cup {k} |-> IF x = k THEN v ELSE d[x]]
DictPop(d, k) == [x \in DOMAIN d \ {k} |-> d[x]]
DictGet(d, k, default) == IF k \in DOMAIN d THEN d[k] ELSE default

(***************************************************************************)
(* Names.                                                                  *)
(***************************************************************************)
\* collection_name = f"{indexName}_{knowledgebaseId}".replace("-", "_")
CollectionName(indexName, knowledgebaseId) ==
    Replace(indexName \o <<"_">> \o PyFormat(knowledgebaseId))

\* indexExist: the name whose existence is checked.
IndexExistName(indexName, knowledgebaseId) ==
    IF Truthy(knowledgebaseId)
    THEN Replace(indexName \o <<"_">> \o PyFormat(knowledgebaseId))
    ELSE indexName

\* vector_field_name = f"q_{vectorSize}_vec"
VectorFieldName(vectorSize) == "q_" \o ToString(vectorSize) \o "_vec"

(***************************************************************************)
(* The inputs the clients draw from.                                       *)
(***************************************************************************)
IDX == <<"i">>
KB1 == <<"k">>
KB2 == <<"k", "-", "2">>
\* A fully qualified collection name, as passed with knowledgebaseId = None.
FQ1 == <<"i", "_", "k">>

X == <<"x">>
Y == <<"y">>
Ids == {X, Y}

A == <<"a">>
B == <<"b">>
V1 == <<"v1">>
V2 == <<"v2">>

Clients == {"c1", "c2"}

VectorSizes == {8}

\* (indexName, knowledgebaseId) pairs createIdx and deleteIdx are called with.
CreateTargets == {<<IDX, KB1>>, <<IDX, KB2>>}

\* (indexName, knowledgebaseId) pairs the other operations are called with.
CallTargets == CreateTargets \cup {<<IDX, None>>, <<IDX, <<>> >>, <<FQ1, None>>}

\* The arguments of createIdx and deleteIdx where only they are called: also
\* an empty and a None knowledgebaseId, and two vector sizes.
IdxTargets == {<<IDX, KB1>>, <<IDX, <<>> >>, <<IDX, None>>}
IdxVectorSizes == {8, 16}

\* Every collection name an operation can compute.
JDX == <<"j">>
KB3 == <<"q">>

\* (indexName, knowledgebaseId) pairs a search can name.
SearchTargets == {<<i, k>> : i \in {IDX, JDX}, k \in {KB1, KB2, KB3}}

\* Pairs whose names meet, and a knowledge base id that makes the name
\* longer than the engine takes.
K_2 == <<"k", "_", "2">>
LongKb == <<"k", "-", "2", "-", "3", "-", "4">>
NameTargets ==
    {<<IDX, KB1>>, <<IDX, KB2>>, <<IDX, K_2>>, <<FQ1, <<"2">> >>, <<IDX, LongKb>>}

Names ==
    {CollectionName(t[1], t[2]) : t \in CallTargets \cup SearchTargets \cup NameTargets}
        \cup {IndexExistName(t[1], t[2]) : t \in CallTargets}

(***************************************************************************)
(* The engine.  A collection exists once Collection(name, schema) created  *)
(* it, then gets an ANN index on its vector field and is loaded.  Its rows *)
(* are a bag: insert appends and does not de-duplicate primary keys.       *)
(***************************************************************************)
Absent == [exists |-> FALSE, indexed |-> FALSE, loaded |-> FALSE, dim |-> 0,
           schema |-> <<>>, rows |-> EmptyBag]

TotalRows(cs) ==
    LET RECURSIVE Sum(_)
        Sum(S) == IF S = {} THEN 0
                  ELSE LET n == CHOOSE n \in S : TRUE
                       IN BagCardinality(cs[n].rows) + Sum(S \ {n})
    IN Sum(DOMAIN cs)

\* The text of a string literal in a filter expression: '<value>'.
Quote(v) == <<"'">> \o v \o <<"'">>

(***************************************************************************)
(* The text of a filter expression, as a sequence of lexemes: a field      *)
(* name, an operator, a bracket, a comma, a quote, or a piece of a value.  *)
(* The f-strings of the connector put a value between two quotes as it is. *)
(***************************************************************************)
\* sep.join(parts)
RECURSIVE Join(_, _)
Join(parts, sep) ==
    IF parts = <<>> THEN <<>>
    ELSE IF Len(parts) = 1 THEN parts[1]
    ELSE parts[1] \o sep \o Join(Tail(parts), sep)

\* The text of one clause and of an expression of update, delete and get:
\* f"id == '{ids}'", f"id in [{', '.join(formatted_ids)}]", " and ".join(...)
RenderClause(c) ==
    IF c.kind = "eq" THEN <<c.field, "==">> \o c.lits[1]
    ELSE <<c.field, "in", "[">> \o Join(c.lits, <<",">>) \o <<"]">>

Render(expr) == Join([n \in 1..Len(expr) |-> RenderClause(expr[n])], <<"and">>)

\* A faulty variant: a number is quoted like a string.
SearchClauseQuotingAll(field, value) ==
    IF value.t = "list"
    THEN <<field, "in", "[">>
            \o Join([n \in 1..Len(value.l) |-> Quote(value.l[n])], <<",">>) \o <<"]">>
    ELSE <<field, "==">> \o Quote(value.s)

\* search: the clause of one entry of the condition: a list gives "in" over
\* its quoted items, a string a quoted equality, any other value an equality
\* with str(value).
SearchClause(field, value) ==
    IF value.t = "list"
    THEN <<field, "in", "[">>
            \o Join([n \in 1..Len(value.l) |-> Quote(value.l[n])], <<",">>) \o <<"]">>
    ELSE IF value.t = "str" THEN <<field, "==">> \o Quote(value.s)
    ELSE <<field, "==">> \o value.s

\* search: final_filter_expr, from the entries of the condition in the
\* order of condition.items(); "" when there is none.
SearchExpr(condition) ==
    Join([n \in 1..Len(condition) |-> SearchClause(condition[n].k, condition[n].v)],
         <<"and">>)

(***************************************************************************)
(* The engine's reading of a filter expression: clauses field == literal,  *)
(* field != literal and field in [literal, ...], joined by "and" and "or"  *)
(* ("and" binds tighter).  A quoted literal ends at the next quote.        *)
(***************************************************************************)
Structural == {"==", "!=", "in", "and", "or", "[", "]", ",", "'"}

\* The fields of the schema that hold numbers.
NumericFields == {"page_num_int", "create_timestamp_flt"}

NoParse == [ok |-> FALSE, quoted |-> FALSE, text |-> <<>>, next |-> 0]

\* The literal that starts at position i.
ParseLiteral(ts, i) ==
    IF i > Len(ts) THEN NoParse
    ELSE IF ts[i] = "'"
    THEN IF \E j \in (i + 1)..Len(ts) : ts[j] = "'"
         THEN LET j == CHOOSE j \in (i + 1)..Len(ts) :
                          ts[j] = "'" /\ \A k \in (i + 1)..(j - 1) : ts[k] # "'"
              IN [ok |-> TRUE, quoted |-> TRUE, text |-> SubSeq(ts, i + 1, j - 1),
                  next |-> j + 1]
         ELSE NoParse
    ELSE IF ts[i] \in Structural THEN NoParse
    ELSE [ok |-> TRUE, quoted |-> FALSE, text |-> <<ts[i]>>, next |-> i + 1]

\* The literals of a list, from position i (after "[") to the closing "]".
RECURSIVE ParseList(_, _)
ParseList(ts, i) ==
    LET l == ParseLiteral(ts, i) IN
    IF ~l.ok \/ l.next > Len(ts) THEN [ok |-> FALSE, lits |-> <<>>, next |-> 0]
    ELSE IF ts[l.next] = "]" THEN [ok |-> TRUE, lits |-> <<l>>, next |-> l.next + 1]
    ELSE IF ts[l.next] = ","
    THEN LET r == ParseList(ts, l.next + 1)
         IN [ok |-> r.ok, lits |-> <<l>> \o r.lits, next |-> r.next]
    ELSE [ok |-> FALSE, lits |-> <<>>, next |-> 0]

NoAtom == [ok |-> FALSE, field |-> "", op |-> "", lits |-> <<>>, next |-> 0]

\* The clause that starts at position i.
ParseAtom(ts, i) ==
    IF i + 2 > Len(ts) \/ ts[i] \in Structural THEN NoAtom
    ELSE IF ts[i + 1] \in {"==", "!="}
    THEN LET l == ParseLiteral(ts, i + 2)
         IN [ok |-> l.ok, field |-> ts[i], op |-> ts[i + 1], lits |-> <<l>>,
             next |-> l.next]
    ELSE IF ts[i + 1] = "in" /\ ts[i + 2] = "[" /\ i + 3 <= Len(ts) /\ ts[i + 3] = "]"
    THEN [ok |-> TRUE, field |-> ts[i], op |-> "in", lits |-> <<>>, next |-> i + 4]
    ELSE IF ts[i + 1] = "in" /\ ts[i + 2] = "["
    THEN LET r == ParseList(ts, i + 3)
         IN [ok |-> r.ok, field |-> ts[i], op |-> "in", lits |-> r.lits, next |-> r.next]
    ELSE NoAtom

\* The clauses from position i on, each with the connective before it.
RECURSIVE ParseFrom(_, _, _)
ParseFrom(ts, i, conn) ==
    LET a == ParseAtom(ts, i) IN
    IF ~a.ok THEN [ok |-> FALSE, items |-> <<>>]
    ELSE IF a.next > Len(ts) THEN [ok |-> TRUE, items |-> <<[conn |-> conn, atom |-> a]>>]
    ELSE IF ts[a.next] \in {"and", "or"}
    THEN LET r == ParseFrom(ts, a.next + 1, ts[a.next])
         IN [ok |-> r.ok, items |-> <<[conn |-> conn, atom |-> a]>> \o r.items]
    ELSE [ok |-> FALSE, items |-> <<>>]

\* The empty expression selects every row.
ParseExpr(ts) ==
    IF ts = <<>> THEN [ok |-> TRUE, items |-> <<>>] ELSE ParseFrom(ts, 1, "and")

\* A literal equals the value of a field: a quoted one for a text field, an
\* unquoted one for a numeric field.
LiteralIs(field, value, lit) ==
    /\ lit.quoted = (field \notin NumericFields)
    /\ value = lit.text

AtomHolds(row, a) ==
    /\ a.field \in DOMAIN row
    /\ IF a.op = "!=" THEN ~LiteralIs(a.field, row[a.field], a.lits[1])
       ELSE \E n \in 1..Len(a.lits) : LiteralIs(a.field, row[a.field], a.lits[n])

\* The row satisfies the parsed expression: some group of clauses between
\* two "or" holds as a whole.
ItemsHold(row, items) ==
    LET group(n) == Cardinality({m \in 1..n : items[m].conn = "or"})
    IN \/ items = <<>>
       \/ \E g \in 0..Len(items) :
            /\ \E n \in 1..Len(items) : group(n) = g
            /\ \A n \in 1..Len(items) : group(n) = g => AtomHolds(row, items[n].atom)

\* The engine accepts the text, and the rows of a bag the text selects.
Accepts(ts) == ParseExpr(ts).ok
Selects(row, ts) == ItemsHold(row, ParseExpr(ts).items)

\* The engine's evaluation of one clause of a filter expression on a row
\* when no value of the clause holds a quote.
ClauseHolds(row, clause) ==
    /\ clause.field \in DOMAIN row
    /\ \E n \in 1..Len(clause.lits) : clause.lits[n] = Quote(row[clause.field])

\* The engine is sent the text of the clauses joined by " and ", and
\* evaluates what it reads there.
ExprHolds(row, expr) == Selects(row, Render(expr))

\* The rows of a bag that satisfy a filter expression, and the others.
Matching(rows, expr) ==
    [r \in {r \in DOMAIN rows : ExprHolds(r, expr)} |-> rows[r]]
NotMatching(rows, expr) ==
    [r \in {r \in DOMAIN rows : ~ExprHolds(r, expr)} |-> rows[r]]

\* output_fields: the engine returns the named fields of a row.
Project(row, fields) == [f \in DOMAIN row \cap fields |-> row[f]]

\* A sequence of rows as a bag.
RECURSIVE SeqToBag(_)
SeqToBag(s) == IF s = <<>> THEN EmptyBag
               ELSE SetToBag({Head(s)}) (+) SeqToBag(Tail(s))

(***************************************************************************)
(* The schema createIdx gives every collection.                            *)
(***************************************************************************)
ScalarFields ==
    {"id", "kb_id", "doc_id", "docnm_kwd", "content_ltks", "name_tks",
     "important_kwd", "question_tks", "page_num_int", "create_timestamp_flt"}

\* FieldSchema(name=..., dtype=..., is_primary=..., dim=...)
FieldSchema(name, dtype, is_primary, dim) ==
    [name |-> name, dtype |-> dtype, is_primary |-> is_primary, dim |-> dim]

\* A faulty variant: the vector field is named without the width.
CreateIdxFieldsWithFixedVectorName(vectorSize) ==
    <<FieldSchema("id", "VARCHAR", TRUE, 0),
      FieldSchema("kb_id", "VARCHAR", FALSE, 0),
      FieldSchema("q_vec", "FLOAT_VECTOR", FALSE, vectorSize)>>

\* createIdx: fields, in the order of the list.
CreateIdxFields(vectorSize) ==
    <<FieldSchema("id", "VARCHAR", TRUE, 0),
      FieldSchema("kb_id", "VARCHAR", FALSE, 0),
      FieldSchema("doc_id", "VARCHAR", FALSE, 0),
      FieldSchema("docnm_kwd", "VARCHAR", FALSE, 0),
      FieldSchema("content_ltks", "VARCHAR", FALSE, 0),
      FieldSchema("name_tks", "VARCHAR", FALSE, 0),
      FieldSchema("important_kwd", "VARCHAR", FALSE, 0),
      FieldSchema("question_tks", "VARCHAR", FALSE, 0),
      FieldSchema("page_num_int", "INT32", FALSE, 0),
      FieldSchema("create_timestamp_flt", "FLOAT", FALSE, 0),
      FieldSchema(VectorFieldName(vectorSize), "FLOAT_VECTOR", FALSE, vectorSize)>>

\* schema_fields = [field.name for field in collection.schema.fields]
SchemaFields(dim) == ScalarFields \cup {VectorFieldName(dim)}

(***************************************************************************)
(* The clients.  An operation runs from its call to "done", where its      *)
(* result, log records and requests can be read; the client then takes the *)
(* result and is idle again.                                               *)
(***************************************************************************)
NoOp == [name |-> "none", indexName |-> <<>>, kbId |-> <<>>, vectorSize |-> 0,
         cond |-> EmptyDict, newValue |-> EmptyDict, docs |-> <<>>,
         chunkId |-> <<>>, kbIds |-> <<>>, tenant |-> <<>>, res |-> <<>>,
         fields |-> <<>>, args |-> <<>>, indexNames |-> PyStr(<<>>),
         condition |-> <<>>, matchExprs |-> <<>>, selectFields |-> {},
         offset |-> 0, limit |-> 0]

\* No earlier operation.
NoPrior == [name |-> "none", indexName |-> <<>>, kbId |-> <<>>, cond |-> EmptyDict,
            docs |-> <<>>, kind |-> "none", val |-> "None", answered |-> FALSE]

\* overlap is a history field, not a variable of the code: the clients whose
\* update had fetched its row and not yet re-inserted it when the delete
\* request of this operation was answered.  prior is a history field too: the
\* operation whose result the caller took right before calling this one.
\* todo and fields are get's loop variable (the knowledge bases still to try)
\* and schema_fields.  acc, mtodo and filter are search's results_list, the
\* match expressions still to process and final_filter_expr.
NoLoc == [fetched |-> EmptyDict, delCount |-> 0, deleted |-> FALSE,
          inserted |-> FALSE, errCount |-> 0, prepared |-> <<>>, expr |-> <<>>,
          overlap |-> {}, todo |-> <<>>, fields |-> {}, prior |-> NoPrior,
          acc |-> <<>>, mtodo |-> <<>>, filter |-> <<>>,
          all_ids |-> <<>>, offset |-> 0]

NoRet == [kind |-> "none", val |-> "None"]

Init ==
    /\ dbs = {}
    /\ colls = [n \in Names |-> Absent]
    /\ pc = [p \in Clients |-> "idle"]
    /\ op = [p \in Clients |-> NoOp]
    /\ loc = [p \in Clients |-> NoLoc]
    /\ ret = [p \in Clients |-> NoRet]
    /\ log = [p \in Clients |-> {}]
    /\ calls = [p \in Clients |-> <<>>]

Ready(p) == pc[p] = "idle"

\* The call of an operation: its arguments are bound and nothing has been issued.
Begin(p, o, first) ==
    /\ Ready(p)
    /\ pc' = [pc EXCEPT ![p] = first]
    /\ UNCHANGED dbs
    /\ op' = [op EXCEPT ![p] = o]
    /\ loc' = [loc EXCEPT ![p] = NoLoc]
    /\ ret' = [ret EXCEPT ![p] = NoRet]
    /\ log' = [log EXCEPT ![p] = {}]
    /\ calls' = [calls EXCEPT ![p] = <<>>]
    /\ UNCHANGED colls

\* The caller has taken the result of the operation.
Forget(p) ==
    /\ pc[p] = "done"
    /\ pc' = [pc EXCEPT ![p] = "idle"]
    /\ UNCHANGED dbs
    /\ op' = [op EXCEPT ![p] = NoOp]
    /\ loc' = [loc EXCEPT ![p] = NoLoc]
    /\ ret' = [ret EXCEPT ![p] = NoRet]
    /\ log' = [log EXCEPT ![p] = {}]
    /\ calls' = [calls EXCEPT ![p] = <<>>]
    /\ UNCHANGED colls

\* One request to the engine, with the engine's answer (ok) or failure.
Issue(p, rpc, coll, ok) ==
    calls' = [calls EXCEPT ![p] = Append(@, [rpc |-> rpc, coll |-> coll, ok |-> ok])]

Goto(p, label, records) ==
    /\ pc' = [pc EXCEPT ![p] = label]
    /\ UNCHANGED dbs
    /\ log' = [log EXCEPT ![p] = @ \cup records]
    /\ UNCHANGED ret

Return(p, val, records) ==
    /\ pc' = [pc EXCEPT ![p] = "done"]
    /\ UNCHANGED dbs
    /\ ret' = [ret EXCEPT ![p] = [kind |-> "value", val |-> val]]
    /\ log' = [log EXCEPT ![p] = @ \cup records]

Raise(p, records) ==
    /\ pc' = [pc EXCEPT ![p] = "done"]
    /\ UNCHANGED dbs
    /\ ret' = [ret EXCEPT ![p] = [kind |-> "raise", val |-> "None"]]
    /\ log' = [log EXCEPT ![p] = @ \cup records]

\* The engine takes names of at most NameLimit characters: a request that
\* names a collection by a longer name fails.
NameLimit == 6
NameAnswers(name) == IF Len(name) > NameLimit THEN {FALSE} ELSE BOOLEAN

\* A request on a collection handle can only be answered while the collection exists.
Answers(name) == IF colls[name].exists THEN BOOLEAN ELSE {FALSE}

\* A request that carries a filter expression fails when the engine cannot
\* read the text.
ExprAnswers(name, expr) == IF Accepts(Render(expr)) THEN Answers(name) ELSE {FALSE}

TargetName(p) == CollectionName(op[p].indexName, op[p].kbId)
CheckedName(p) == IndexExistName(op[p].indexName, op[p].kbId)

(***************************************************************************)
(* indexExist and health.                                                  *)
(***************************************************************************)
\* A faulty variant: a failed request counts as "exists".
IndexExistResultTrueOnFailure(ok, has) == IF ok THEN has ELSE TRUE

\* indexExist: has_collection's answer, or False when the request fails.
IndexExistResult(ok, has) == IF ok THEN has ELSE FALSE

IndexExistLog(ok) == IF ok THEN {} ELSE {"index_exist_failed"}

IndexExistInvoke(p) ==
    \E t \in CallTargets :
        Begin(p, [NoOp EXCEPT !.name = "indexExist", !.indexName = t[1],
                              !.kbId = t[2]], "ix_has")

IndexExistHas(p) ==
    /\ pc[p] = "ix_has"
    /\ \E ok \in NameAnswers(CheckedName(p)) :
        /\ Issue(p, "has_collection", CheckedName(p), ok)
        /\ Return(p, IndexExistResult(ok, colls[CheckedName(p)].exists),
                  IndexExistLog(ok))
    /\ UNCHANGED <<colls, op, loc>>

HealthInvoke(p) == Begin(p, [NoOp EXCEPT !.name = "health"], "he_conn")

\* health's except clause: log the error and return False.
HealthFail(p) == Return(p, FALSE, {"health_failed"})

HealthConn(p) ==
    /\ pc[p] = "he_conn"
    /\ \E ok \in BOOLEAN :
        /\ Issue(p, "get_connection", <<>>, ok)
        /\ IF ok THEN Goto(p, "he_list", {}) ELSE HealthFail(p)
    /\ UNCHANGED <<colls, op, loc>>

HealthList(p) ==
    /\ pc[p] = "he_list"
    /\ \E ok \in BOOLEAN :
        /\ Issue(p, "list_collections", <<>>, ok)
        /\ IF ok THEN Return(p, TRUE, {}) ELSE HealthFail(p)
    /\ UNCHANGED <<colls, op, loc>>

(***************************************************************************)
(* createIdx and deleteIdx.                                                *)
(***************************************************************************)
CreateIdxCall(p, targets, sizes) ==
    \E t \in targets, v \in sizes :
        Begin(p, [NoOp EXCEPT !.name = "createIdx", !.indexName = t[1],
                              !.kbId = t[2], !.vectorSize = v], "cr_exist")

CreateIdxInvoke(p) == CreateIdxCall(p, CreateTargets, VectorSizes)
CreateIdxInvokeAny(p) == CreateIdxCall(p, IdxTargets, IdxVectorSizes)

\* if self.indexExist(indexName, knowledgebaseId): return
CreateIdxExist(p) ==
    /\ pc[p] = "cr_exist"
    /\ \E ok \in NameAnswers(CheckedName(p)) :
        /\ Issue(p, "has_collection", CheckedName(p), ok)
        /\ IF IndexExistResult(ok, colls[CheckedName(p)].exists)
           THEN Return(p, "None", IndexExistLog(ok) \cup {"create_skipped"})
           ELSE Goto(p, "cr_collection", IndexExistLog(ok))
    /\ UNCHANGED <<colls, op, loc>>

\* The collection Collection(name, schema) creates: it exists, and is neither
\* indexed nor loaded yet.
Created(vectorSize) ==
    [exists |-> TRUE, indexed |-> FALSE, loaded |-> FALSE, dim |-> vectorSize,
     schema |-> CreateIdxFields(vectorSize), rows |-> EmptyBag]

\* A faulty variant: Collection(name, schema) replaces the schema of an
\* existing collection.
CreateIdxCollectionReplacingSchema(p) ==
    /\ pc[p] = "cr_collection"
    /\ \E ok \in NameAnswers(TargetName(p)) :
        /\ Issue(p, "create_collection", TargetName(p), ok)
        /\ IF ~ok
           THEN /\ Raise(p, {"create_failed"})
                /\ UNCHANGED colls
           ELSE /\ Goto(p, "cr_index", {"collection_created"})
                /\ colls' = [colls EXCEPT ![TargetName(p)] =
                                [Created(op[p].vectorSize) EXCEPT !.rows = colls[TargetName(p)].rows]]
    /\ UNCHANGED <<op, loc>>

\* Collection(name, schema): creates the collection when it is absent; on an
\* existing collection the client compares the schemas and raises on a mismatch.
CreateIdxCollection(p) ==
    /\ pc[p] = "cr_collection"
    /\ \E ok \in NameAnswers(TargetName(p)) :
        /\ Issue(p, "create_collection", TargetName(p), ok)
        /\ LET c == colls[TargetName(p)] IN
           IF ~ok \/ (c.exists /\ c.dim # op[p].vectorSize)
           THEN /\ Raise(p, {"create_failed"})
                /\ UNCHANGED colls
           ELSE /\ Goto(p, "cr_index", {"collection_created"})
                /\ colls' = IF c.exists THEN colls
                            ELSE [colls EXCEPT ![TargetName(p)] =
                                      Created(op[p].vectorSize)]
    /\ UNCHANGED <<op, loc>>

\* collection.create_index(field_name=vector_field_name, index_params=...)
CreateIdxIndex(p) ==
    /\ pc[p] = "cr_index"
    /\ \E ok \in Answers(TargetName(p)) :
        /\ Issue(p, "create_index", TargetName(p), ok)
        /\ IF ok
           THEN /\ Goto(p, "cr_load", {"index_created"})
                /\ colls' = [colls EXCEPT ![TargetName(p)].indexed = TRUE]
           ELSE /\ Raise(p, {"create_failed"})
                /\ UNCHANGED colls
    /\ UNCHANGED <<op, loc>>

\* collection.load(): the engine loads only an indexed collection.
LoadAnswers(name) == IF colls[name].exists /\ colls[name].indexed THEN BOOLEAN ELSE {FALSE}

Loaded(name) == [colls EXCEPT ![name].loaded = TRUE]

CreateIdxLoad(p) ==
    /\ pc[p] = "cr_load"
    /\ \E ok \in LoadAnswers(TargetName(p)) :
        /\ Issue(p, "load", TargetName(p), ok)
        /\ IF ok
           THEN /\ Return(p, "None", {"collection_loaded"})
                /\ colls' = Loaded(TargetName(p))
           ELSE /\ Raise(p, {"create_failed"})
                /\ UNCHANGED colls
    /\ UNCHANGED <<op, loc>>

DeleteIdxCall(p, targets) ==
    \E t \in targets :
        Begin(p, [NoOp EXCEPT !.name = "deleteIdx", !.indexName = t[1],
                              !.kbId = t[2]], "dr_exist")

DeleteIdxInvoke(p) == DeleteIdxCall(p, CreateTargets)
DeleteIdxInvokeAny(p) == DeleteIdxCall(p, IdxTargets)

DeleteIdxExist(p) ==
    /\ pc[p] = "dr_exist"
    /\ \E ok \in NameAnswers(CheckedName(p)) :
        /\ Issue(p, "has_collection", CheckedName(p), ok)
        /\ IF IndexExistResult(ok, colls[CheckedName(p)].exists)
           THEN Goto(p, "dr_drop", IndexExistLog(ok))
           ELSE Return(p, "None", IndexExistLog(ok) \cup {"drop_absent"})
    /\ UNCHANGED <<colls, op, loc>>

\* pymilvus.utility.drop_collection(collection_name=collection_name, ...)
DeleteIdxDrop(p) ==
    /\ pc[p] = "dr_drop"
    /\ \E ok \in Answers(TargetName(p)) :
        /\ Issue(p, "drop_collection", TargetName(p), ok)
        /\ IF ok
           THEN /\ Return(p, "None", {"collection_dropped"})
                /\ colls' = [colls EXCEPT ![TargetName(p)] = Absent]
           ELSE /\ Raise(p, {"drop_failed"})
                /\ UNCHANGED colls
    /\ UNCHANGED <<op, loc>>

(***************************************************************************)
(* Filter expressions, as the connector builds them.                       *)
(***************************************************************************)
\* f"{field} == '{value}'"
EqClause(field, value) == [field |-> field, kind |-> "eq", lits |-> <<Quote(value)>>]

\* f"{field} in [{', '.join(formatted_ids)}]"
InClause(field, values) ==
    [field |-> field, kind |-> "in",
     lits |-> [n \in 1..Len(values) |-> Quote(values[n])]]

IsStr(d, k) == k \in DOMAIN d /\ d[k].t = "str"

(***************************************************************************)
(* The arguments the clients draw from.                                    *)
(***************************************************************************)
\* Conditions: with or without "id" (a string, or a list of ids), with or
\* without "kb_id".
IdConds ==
    {EmptyDict} \cup {[id |-> PyStr(i)] : i \in Ids} \cup {[id |-> PyList(<<X, Y>>)]}

Conds == IdConds \cup {DictSet(c, "kb_id", PyStr(KB1)) : c \in IdConds}

\* The conditions of delete: also an empty list of ids, an id and a kb_id that
\* are numbers, and entries on another field than id and kb_id.
DeleteConds ==
    Conds \cup {[id |-> PyList(<<>>)], [id |-> PyInt], [kb_id |-> PyInt],
                [id |-> PyInt, kb_id |-> PyStr(KB1)],
                [content_ltks |-> PyStr(A)],
                [id |-> PyStr(X), content_ltks |-> PyStr(B)]}

\* Documents: the vector under "embedding", under the vector field's name,
\* under both, or missing; and one document that differs in a scalar field.
VectorKeys == {"embedding"} \cup {VectorFieldName(v) : v \in VectorSizes}

BareDoc(id) == [id |-> id, content_ltks |-> A]

Docs == {BareDoc(i) : i \in Ids}
            \cup {DictSet(BareDoc(i), k, V1) : i \in Ids, k \in VectorKeys}
            \cup {DictSet(DictSet(BareDoc(X), "embedding", V2), VectorFieldName(v), V1) :
                      v \in VectorSizes}
            \cup {[id |-> X, content_ltks |-> B, embedding |-> V1]}

\* Batches of at most n documents.
RECURSIVE Batches(_)
Batches(n) ==
    IF n <= 0 THEN {<<>>}
    ELSE Batches(n - 1) \cup {Append(b, d) : b \in Batches(n - 1), d \in Docs}

\* The new values of an update.
NewValues ==
    {[content_ltks |-> B],
     [id |-> Y, content_ltks |-> B],
     [embedding |-> V2]}
        \cup {DictSet(EmptyDict, VectorFieldName(v), V2) : v \in VectorSizes}
        \cup {DictSet([embedding |-> V2], VectorFieldName(v), V1) : v \in VectorSizes}

(***************************************************************************)
(* insert.                                                                 *)
(***************************************************************************)
\* A faulty variant: a document without a vector is accepted.
PrepareDocUnchecked(doc, vectorField, knowledgebaseId) ==
    LET moved ==
            IF "embedding" \in DOMAIN doc /\ vectorField \notin DOMAIN doc
            THEN DictSet(DictPop(doc, "embedding"), vectorField, doc["embedding"])
            ELSE doc
        stamped ==
            IF "kb_id" \notin DOMAIN moved /\ Truthy(knowledgebaseId)
            THEN DictSet(moved, "kb_id", knowledgebaseId)
            ELSE moved
    IN [ok |-> TRUE, doc |-> stamped]

\* The body of insert's loop over the documents: the vector is moved from
\* "embedding" to the vector field unless the field is present already; a
\* document with neither is an error; kb_id is stamped when absent.
PrepareDoc(doc, vectorField, knowledgebaseId) ==
    LET moved ==
            IF "embedding" \in DOMAIN doc /\ vectorField \notin DOMAIN doc
            THEN DictSet(DictPop(doc, "embedding"), vectorField, doc["embedding"])
            ELSE doc
        stamped ==
            IF "kb_id" \notin DOMAIN moved /\ Truthy(knowledgebaseId)
            THEN DictSet(moved, "kb_id", knowledgebaseId)
            ELSE moved
    IN [ok |-> vectorField \in DOMAIN moved, doc |-> stamped]

PrepareDocs(docs, vectorField, knowledgebaseId) ==
    [n \in 1..Len(docs) |-> PrepareDoc(docs[n], vectorField, knowledgebaseId)]

\* The outcomes of the engine's insert of a batch: every row is persisted, or
\* the call raises and none is, or the engine reports row errors and persists
\* only some of the rows (kept: the positions persisted).
InsertOutcomes(n) ==
    {[raised |-> FALSE, kept |-> 1..n], [raised |-> TRUE, kept |-> {}]}
        \cup {[raised |-> FALSE, kept |-> K] : K \in (SUBSET (1..n)) \ {1..n}}

Kept(rows, kept) ==
    LET RECURSIVE Pick(_)
        Pick(n) == IF n = 0 THEN EmptyBag
                   ELSE IF n \in kept THEN SetToBag({rows[n]}) (+) Pick(n - 1)
                   ELSE Pick(n - 1)
    IN Pick(Len(rows))

Inserted(name, rows, kept) ==
    [colls EXCEPT ![name].rows = @ (+) Kept(rows, kept)]

InsertCall(p, targets) ==
    \E t \in targets :
        Begin(p, [NoOp EXCEPT !.name = "insert", !.indexName = t[1],
                              !.kbId = t[2]], "in_exist")

InsertInvoke(p) == InsertCall(p, CallTargets)

\* A faulty variant: a missing collection gives the empty list instead of an error.
InsertMissingReturnsEmpty(p, records) ==
    Return(p, <<>>, records \cup {"insert_no_collection"})

\* raise ValueError(f"Collection {collection_name} does not exist.")
InsertMissing(p, records) == Raise(p, records \cup {"insert_no_collection"})

\* if not self.indexExist(indexName, knowledgebaseId): raise ValueError
InsertExist(p) ==
    /\ pc[p] = "in_exist"
    /\ \E ok \in BOOLEAN :
        /\ Issue(p, "has_collection", CheckedName(p), ok)
        /\ IF IndexExistResult(ok, colls[CheckedName(p)].exists)
           THEN Goto(p, "in_open", IndexExistLog(ok))
           ELSE InsertMissing(p, IndexExistLog(ok))
    /\ UNCHANGED <<colls, op, loc>>

\* Collection(name=collection_name, ...): a handle; raises when the collection is absent.
InsertOpen(p) ==
    /\ pc[p] = "in_open"
    /\ \E ok \in Answers(TargetName(p)) :
        /\ Issue(p, "open", TargetName(p), ok)
        /\ IF ok THEN Goto(p, "in_load", {}) ELSE Raise(p, {"insert_failed"})
    /\ UNCHANGED <<colls, op, loc>>

\* collection.load(), then the loop that prepares the documents.  The documents
\* are read here for the first time: they are drawn here.
InsertLoadFrom(p, batches) ==
    /\ pc[p] = "in_load"
    /\ \E ok \in LoadAnswers(TargetName(p)) :
        /\ Issue(p, "load", TargetName(p), ok)
        /\ IF ~ok
           THEN /\ Raise(p, {"insert_failed"})
                /\ UNCHANGED <<colls, op, loc>>
           ELSE /\ colls' = Loaded(TargetName(p))
                /\ \E docs \in batches :
                    LET prepared ==
                            PrepareDocs(docs, VectorFieldName(colls[TargetName(p)].dim),
                                        op[p].kbId)
                    IN /\ op' = [op EXCEPT ![p].docs = docs]
                       /\ IF \E n \in 1..Len(docs) : ~prepared[n].ok
                          THEN /\ Raise(p, {"insert_failed"})
                               /\ UNCHANGED loc
                          ELSE /\ loc' = [loc EXCEPT ![p].prepared =
                                              [n \in 1..Len(docs) |-> prepared[n].doc]]
                               /\ IF docs = <<>>
                                  THEN Return(p, <<>>, {})
                                  ELSE Goto(p, "in_insert", {})

InsertLoad(p) == InsertLoadFrom(p, Batches(MaxRows - TotalRows(colls)))

\* mutation_result = collection.insert(prepared_docs)
InsertInsert(p) ==
    /\ pc[p] = "in_insert"
    /\ \E out \in InsertOutcomes(Len(loc[p].prepared)) :
        LET ok == colls[TargetName(p)].exists /\ ~out.raised IN
        /\ Issue(p, "insert", TargetName(p), ok)
        /\ IF ~ok
           THEN /\ Raise(p, {"insert_failed"})
                /\ UNCHANGED <<colls, loc>>
           ELSE /\ colls' = Inserted(TargetName(p), loc[p].prepared, out.kept)
                /\ loc' = [loc EXCEPT ![p].errCount =
                                          Len(loc[p].prepared) - Cardinality(out.kept),
                                      ![p].inserted = out.kept # {}]
                /\ Goto(p, "in_flush", {})
    /\ UNCHANGED op

\* collection.flush(), then the check of err_count.
InsertFlush(p) ==
    /\ pc[p] = "in_flush"
    /\ \E ok \in Answers(TargetName(p)) :
        /\ Issue(p, "flush", TargetName(p), ok)
        /\ IF ~ok \/ loc[p].errCount > 0
           THEN Raise(p, {"insert_failed"} \cup
                         IF ok THEN {"insert_row_errors"} ELSE {})
           ELSE Return(p, <<>>, {"insert_ok"})
    /\ UNCHANGED <<colls, op, loc>>

(***************************************************************************)
(* update: fetch the row by id, delete it, merge the new values onto the   *)
(* fetched row, insert the merged row, flush.                              *)
(***************************************************************************)
\* A faulty variant: the type of the id is not checked.
UpdateConditionHasId(condition) == "id" \in DOMAIN condition

\* if "id" not in condition or not isinstance(condition["id"], str): return False
UpdateConditionValid(condition) == IsStr(condition, "id")

\* A faulty variant: the expression lacks the clause on the id.
UpdateExprWithoutId(condition) ==
    IF IsStr(condition, "kb_id")
    THEN <<EqClause("kb_id", condition["kb_id"].s)>>
    ELSE <<>>

\* query_expr / delete_expr: f"id == '{id}'", narrowed by kb_id when the
\* condition has a string kb_id.
UpdateExpr(condition) ==
    <<EqClause("id", condition["id"].s)>>
        \o (IF IsStr(condition, "kb_id")
            THEN <<EqClause("kb_id", condition["kb_id"].s)>>
            ELSE <<>>)

\* A faulty variant: the new values may rename the id.
MergeNewValueRenamingId(original, newValue, docId, vectorField, knowledgebaseId) ==
    LET hasEmbedding == "embedding" \in DOMAIN newValue
        plain == DOMAIN newValue \ {"embedding"}
        keys == DOMAIN original \cup plain
                    \cup (IF hasEmbedding THEN {vectorField} ELSE {})
        merged ==
            [k \in keys |->
                IF k = vectorField /\ hasEmbedding THEN newValue["embedding"]
                ELSE IF k \in plain THEN newValue[k]
                ELSE original[k]]
    IN IF "kb_id" \in DOMAIN merged THEN merged
       ELSE DictSet(merged, "kb_id", DictGet(original, "kb_id", knowledgebaseId))

\* The loop over newValue.items(): an "id" that differs from the id updated is
\* skipped; "embedding" is stored under the vector field (and wins over an
\* entry under the vector field's own name); every other entry overwrites.
\* Then kb_id is restored when the merged row has none.
MergeNewValue(original, newValue, docId, vectorField, knowledgebaseId) ==
    LET hasEmbedding == "embedding" \in DOMAIN newValue
        skipped(k) == k = "id" /\ newValue[k] # docId
        plain == {k \in DOMAIN newValue : k # "embedding" /\ ~skipped(k)}
        keys == DOMAIN original \cup plain
                    \cup (IF hasEmbedding THEN {vectorField} ELSE {})
        merged ==
            [k \in keys |->
                IF k = vectorField /\ hasEmbedding THEN newValue["embedding"]
                ELSE IF k \in plain THEN newValue[k]
                ELSE original[k]]
    IN IF "kb_id" \in DOMAIN merged THEN merged
       ELSE DictSet(merged, "kb_id", DictGet(original, "kb_id", knowledgebaseId))

\* A faulty variant: the except clause logs what a missing id logs.
UpdateExceptionLogOfNotFound == {"update_not_found"}

\* The log record of update's except clause.
UpdateExceptionLog == {"update_exception"}

\* The log record written when the re-insert reports row errors.
UpdateRowErrorLog == {"update_insert_errors"}

\* A faulty variant: the except clause reports success.
UpdateExceptReturnsTrue(p) == Return(p, TRUE, UpdateExceptionLog)

\* except Exception: log the error and return False.
UpdateExcept(p) == Return(p, FALSE, UpdateExceptionLog)

UpdateCall(p, targets, conditions) ==
    \E t \in targets, c \in conditions :
        Begin(p, [NoOp EXCEPT !.name = "update", !.indexName = t[1],
                              !.kbId = t[2], !.cond = c], "up_exist")

UpdateInvoke(p) == UpdateCall(p, CallTargets, Conds)

\* The existence check, then the check of the condition.
UpdateExist(p) ==
    /\ pc[p] = "up_exist"
    /\ \E ok \in BOOLEAN :
        /\ Issue(p, "has_collection", CheckedName(p), ok)
        /\ IF ~IndexExistResult(ok, colls[CheckedName(p)].exists)
           THEN Return(p, FALSE, IndexExistLog(ok) \cup {"update_no_collection"})
           ELSE IF ~UpdateConditionValid(op[p].cond)
           THEN Return(p, FALSE, IndexExistLog(ok) \cup {"update_bad_condition"})
           ELSE Goto(p, "up_open", IndexExistLog(ok))
    /\ UNCHANGED <<colls, op, loc>>

UpdateOpen(p) ==
    /\ pc[p] = "up_open"
    /\ \E ok \in Answers(TargetName(p)) :
        /\ Issue(p, "open", TargetName(p), ok)
        /\ IF ok THEN Goto(p, "up_load", {}) ELSE UpdateExcept(p)
    /\ UNCHANGED <<colls, op, loc>>

UpdateLoad(p) ==
    /\ pc[p] = "up_load"
    /\ \E ok \in LoadAnswers(TargetName(p)) :
        /\ Issue(p, "load", TargetName(p), ok)
        /\ IF ok
           THEN /\ Goto(p, "up_query", {})
                /\ colls' = Loaded(TargetName(p))
           ELSE /\ UpdateExcept(p)
                /\ UNCHANGED colls
    /\ UNCHANGED <<op, loc>>

\* existing_entities = collection.query(expr, output_fields=schema_fields, limit=1)
UpdateQuery(p) ==
    /\ pc[p] = "up_query"
    /\ \E ok \in ExprAnswers(TargetName(p), UpdateExpr(op[p].cond)) :
        LET c == colls[TargetName(p)]
            found == DOMAIN Matching(c.rows, UpdateExpr(op[p].cond))
        IN /\ Issue(p, "query", TargetName(p), ok)
           /\ IF ~ok
              THEN UpdateExcept(p) /\ UNCHANGED loc
              ELSE IF found = {}
              THEN Return(p, FALSE, {"update_not_found"}) /\ UNCHANGED loc
              ELSE \E r \in found :
                    /\ loc' = [loc EXCEPT ![p].fetched = Project(r, SchemaFields(c.dim))]
                    /\ Goto(p, "up_delete", {})
    /\ UNCHANGED <<colls, op>>

\* A faulty variant: nothing is inserted when the delete found no row.
UpdatedDocsUnlessGone(updatedDoc, deleteCount) ==
    IF deleteCount = 0 THEN <<>> ELSE <<updatedDoc>>

\* What update inserts: [updated_doc], also when delete_count == 0, which
\* only logs a warning.
UpdatedDocs(updatedDoc, deleteCount) == <<updatedDoc>>

\* del_result = collection.delete(delete_expr), then the merge of the new
\* values, which are read here for the first time: they are drawn here.
UpdateDelete(p) ==
    /\ pc[p] = "up_delete"
    /\ \E ok \in ExprAnswers(TargetName(p), UpdateExpr(op[p].cond)) :
        LET c == colls[TargetName(p)]
            n == BagCardinality(Matching(c.rows, UpdateExpr(op[p].cond)))
        IN /\ Issue(p, "delete", TargetName(p), ok)
           /\ IF ~ok
              THEN UpdateExcept(p) /\ UNCHANGED <<colls, op, loc>>
              ELSE /\ colls' = [colls EXCEPT ![TargetName(p)].rows =
                                    NotMatching(@, UpdateExpr(op[p].cond))]
                   /\ \E nv \in NewValues :
                        /\ op' = [op EXCEPT ![p].newValue = nv]
                        /\ loc' = [loc EXCEPT
                              ![p].delCount = n,
                              ![p].deleted = TRUE,
                              ![p].prepared =
                                  UpdatedDocs(
                                      MergeNewValue(loc[p].fetched, nv, op[p].cond["id"].s,
                                                    VectorFieldName(c.dim), op[p].kbId),
                                      n)]
                   /\ Goto(p, "up_insert", IF n = 0 THEN {"update_delete_zero"} ELSE {})

\* insert_result = collection.insert([updated_doc])
UpdateInsert(p) ==
    /\ pc[p] = "up_insert"
    /\ \E out \in InsertOutcomes(Len(loc[p].prepared)) :
        LET ok == colls[TargetName(p)].exists /\ ~out.raised IN
        /\ Issue(p, "insert", TargetName(p), ok)
        /\ IF ~ok
           THEN UpdateExcept(p) /\ UNCHANGED <<colls, loc>>
           ELSE /\ colls' = Inserted(TargetName(p), loc[p].prepared, out.kept)
                /\ loc' = [loc EXCEPT ![p].errCount =
                                          Len(loc[p].prepared) - Cardinality(out.kept),
                                      ![p].inserted = out.kept # {}]
                /\ Goto(p, "up_flush", {})
    /\ UNCHANGED op

\* collection.flush(), then the check of err_count.
UpdateFlush(p) ==
    /\ pc[p] = "up_flush"
    /\ \E ok \in Answers(TargetName(p)) :
        /\ Issue(p, "flush", TargetName(p), ok)
        /\ IF ~ok THEN UpdateExcept(p)
           ELSE IF loc[p].errCount > 0 THEN Return(p, FALSE, UpdateRowErrorLog)
           ELSE Return(p, TRUE, {"update_ok"})
    /\ UNCHANGED <<colls, op, loc>>

(***************************************************************************)
(* delete.                                                                 *)
(***************************************************************************)
\* expr_parts: what delete builds from the condition.  stop: the early
\* returns (an empty id list, an id that is neither a list nor a string).
DeleteExpr(condition) ==
    LET hasId == "id" \in DOMAIN condition
        idPart ==
            IF ~hasId THEN <<>>
            ELSE IF condition["id"].t = "list" THEN <<InClause("id", condition["id"].l)>>
            ELSE IF condition["id"].t = "str" THEN <<EqClause("id", condition["id"].s)>>
            ELSE <<>>
        kbPart ==
            IF IsStr(condition, "kb_id")
            THEN <<EqClause("kb_id", condition["kb_id"].s)>>
            ELSE <<>>
        stop == /\ hasId
                /\ \/ condition["id"].t = "list" /\ condition["id"].l = <<>>
                   \/ condition["id"].t \notin {"list", "str"}
    IN [stop |-> stop, parts |-> idPart \o kbPart]

DeleteCall(p, targets, conditions) ==
    \E t \in targets, c \in conditions :
        Begin(p, [NoOp EXCEPT !.name = "delete", !.indexName = t[1],
                              !.kbId = t[2], !.cond = c], "de_exist")

DeleteInvoke(p) == DeleteCall(p, CallTargets, DeleteConds)

\* A faulty variant: an empty filter does not stop the delete.
DeleteNothingNever(e) == FALSE

\* The early returns of 0: "if not ids: return 0", the id of an unsupported
\* type, and "if not expr_parts: ... return 0".
DeleteNothing(e) == e.stop \/ e.parts = <<>>

\* A faulty variant: the except clause returns 0.
DeleteExceptReturnsZero(p) == Return(p, 0, {"delete_failed"})

\* except Exception: log the error and raise.
DeleteExcept(p) == Raise(p, {"delete_failed"})

DeleteExist(p) ==
    /\ pc[p] = "de_exist"
    /\ \E ok \in BOOLEAN :
        /\ Issue(p, "has_collection", CheckedName(p), ok)
        /\ IF IndexExistResult(ok, colls[CheckedName(p)].exists)
           THEN Goto(p, "de_open", IndexExistLog(ok))
           ELSE Return(p, 0, IndexExistLog(ok) \cup {"delete_no_collection"})
    /\ UNCHANGED <<colls, op, loc>>

DeleteOpen(p) ==
    /\ pc[p] = "de_open"
    /\ \E ok \in Answers(TargetName(p)) :
        /\ Issue(p, "open", TargetName(p), ok)
        /\ IF ok THEN Goto(p, "de_load", {}) ELSE DeleteExcept(p)
    /\ UNCHANGED <<colls, op, loc>>

\* collection.load(), then the construction of the filter expression.
DeleteLoad(p) ==
    /\ pc[p] = "de_load"
    /\ \E ok \in LoadAnswers(TargetName(p)) :
        LET e == DeleteExpr(op[p].cond) IN
        /\ Issue(p, "load", TargetName(p), ok)
        /\ IF ~ok
           THEN DeleteExcept(p) /\ UNCHANGED <<colls, loc>>
           ELSE /\ colls' = Loaded(TargetName(p))
                /\ IF DeleteNothing(e)
                   THEN Return(p, 0, {"delete_nothing"}) /\ UNCHANGED loc
                   ELSE /\ loc' = [loc EXCEPT ![p].expr = e.parts]
                        /\ Goto(p, "de_delete", {})
    /\ UNCHANGED op

\* mutation_result = collection.delete(expr)
DeleteDelete(p) ==
    /\ pc[p] = "de_delete"
    /\ \E ok \in ExprAnswers(TargetName(p), loc[p].expr) :
        /\ Issue(p, "delete", TargetName(p), ok)
        /\ IF ~ok
           THEN DeleteExcept(p) /\ UNCHANGED <<colls, loc>>
           ELSE /\ colls' = [colls EXCEPT ![TargetName(p)].rows =
                                 NotMatching(@, loc[p].expr)]
                /\ loc' = [loc EXCEPT
                      ![p].delCount =
                          BagCardinality(Matching(colls[TargetName(p)].rows, loc[p].expr)),
                      ![p].deleted = TRUE,
                      ![p].overlap =
                          {q \in Clients \ {p} :
                              /\ op[q].name = "update"
                              /\ pc[q] \in {"up_delete", "up_insert"}
                              /\ TargetName(q) = TargetName(p)}]
                /\ Goto(p, "de_flush", {})
    /\ UNCHANGED op

\* collection.flush(); return mutation_result.delete_count
DeleteFlush(p) ==
    /\ pc[p] = "de_flush"
    /\ \E ok \in Answers(TargetName(p)) :
        /\ Issue(p, "flush", TargetName(p), ok)
        /\ IF ok THEN Return(p, loc[p].delCount, {"delete_ok"})
           ELSE DeleteExcept(p)
    /\ UNCHANGED <<colls, op, loc>>

(***************************************************************************)
(* get: for each knowledge base in the order given, skip it when its       *)
(* collection does not exist, else open and load the collection, read the  *)
(* schema's field names and query the row by id; the first row found is    *)
(* returned, and after the last knowledge base None is.  The except clause *)
(* is inside the loop: a failure goes on to the next knowledge base.       *)
(***************************************************************************)
\* get's result: a row, or None.
GetNone == [found |-> FALSE, doc |-> EmptyDict]
GetDoc(doc) == [found |-> TRUE, doc |-> doc]

\* A faulty variant: the knowledge bases are tried in the reverse order.
KbListReversed(knowledgebaseIds) ==
    IF knowledgebaseIds.t = "list"
    THEN [n \in 1..Len(knowledgebaseIds.l) |->
             knowledgebaseIds.l[Len(knowledgebaseIds.l) + 1 - n]]
    ELSE <<knowledgebaseIds.s>>

\* if not isinstance(knowledgebaseIds, list): knowledgebaseIds = [knowledgebaseIds]
\* for kb_id in knowledgebaseIds:
KbList(knowledgebaseIds) ==
    IF knowledgebaseIds.t = "list" THEN knowledgebaseIds.l ELSE <<knowledgebaseIds.s>>

\* A faulty variant: the expression has no clause.
GetExprOfAnyRow(chunkId) == <<>>

\* expr = f"id == '{chunkId}'"
GetExpr(chunkId) == <<EqClause("id", chunkId)>>

\* The knowledge base get is at, the collection it reads and the name its
\* existence checks and get_schema_field_names use.
GetKb(p) == Head(loc[p].todo)
GetName(p) == CollectionName(op[p].indexName, GetKb(p))
GetCheckedName(p) == IndexExistName(op[p].indexName, GetKb(p))

\* continue, or the end of the loop: return None.
GetContinue(p, records) ==
    /\ loc' = [loc EXCEPT ![p].todo = Tail(@)]
    /\ IF Len(loc[p].todo) = 1
       THEN Return(p, GetNone, records)
       ELSE Goto(p, "ge_exist", records)

\* A faulty variant: the except clause raises.
GetExceptRaises(p) == Raise(p, {"get_failed"}) /\ UNCHANGED loc

\* except Exception: log the error and go on with the next knowledge base.
GetExcept(p) == GetContinue(p, {"get_failed"})

\* The operation the caller has just finished, as the next call remembers it.
Prior(p) ==
    [name |-> op[p].name, indexName |-> op[p].indexName, kbId |-> op[p].kbId,
     cond |-> op[p].cond, docs |-> op[p].docs, kind |-> ret[p].kind,
     val |-> ret[p].val,
     answered |-> \A n \in 1..Len(calls[p]) : calls[p][n].ok]

GetCall(p, chunkIds, targets, prior) ==
    \E id \in chunkIds, t \in targets :
        /\ KbList(t[2]) # <<>>
        /\ pc' = [pc EXCEPT ![p] = "ge_exist"]
        /\ UNCHANGED dbs
        /\ op' = [op EXCEPT ![p] = [NoOp EXCEPT !.name = "get", !.chunkId = id,
                                                 !.indexName = t[1], !.kbIds = t[2]]]
        /\ loc' = [loc EXCEPT ![p] = [NoLoc EXCEPT !.todo = KbList(t[2]),
                                                   !.prior = prior]]
        /\ ret' = [ret EXCEPT ![p] = NoRet]
        /\ log' = [log EXCEPT ![p] = {}]
        /\ calls' = [calls EXCEPT ![p] = <<>>]
        /\ UNCHANGED colls

\* (indexName, knowledgebaseIds) pairs get is called with.
GetTargets ==
    {<<IDX, PyList(<<KB1>>)>>, <<IDX, PyList(<<KB1, KB2>>)>>,
     <<IDX, PyList(<<KB2, KB1>>)>>, <<IDX, PyStr(KB2)>>}

\* get called by an idle caller, and right after the caller took the result
\* of an insert, a delete or a deleteIdx.
GetInvoke(p) == Ready(p) /\ GetCall(p, Ids, GetTargets, NoPrior)
GetInvokeAfter(p) ==
    /\ pc[p] = "done" /\ op[p].name \in {"insert", "delete", "deleteIdx"}
    /\ GetCall(p, Ids, GetTargets, Prior(p))

\* if not self.indexExist(indexName, kb_id): continue
GetExist(p) ==
    /\ pc[p] = "ge_exist"
    /\ \E ok \in BOOLEAN :
        /\ Issue(p, "has_collection", GetCheckedName(p), ok)
        /\ IF IndexExistResult(ok, colls[GetCheckedName(p)].exists)
           THEN Goto(p, "ge_open", IndexExistLog(ok)) /\ UNCHANGED loc
           ELSE GetContinue(p, IndexExistLog(ok) \cup {"get_skip"})
    /\ UNCHANGED <<colls, op>>

\* collection = Collection(name=collection_name, ...)
GetOpen(p) ==
    /\ pc[p] = "ge_open"
    /\ \E ok \in Answers(GetName(p)) :
        /\ Issue(p, "open", GetName(p), ok)
        /\ IF ok THEN Goto(p, "ge_load", {}) /\ UNCHANGED loc ELSE GetExcept(p)
    /\ UNCHANGED <<colls, op>>

\* collection.load()
GetLoad(p) ==
    /\ pc[p] = "ge_load"
    /\ \E ok \in LoadAnswers(GetName(p)) :
        /\ Issue(p, "load", GetName(p), ok)
        /\ IF ok
           THEN /\ colls' = Loaded(GetName(p))
                /\ Goto(p, "ge_schema_exist", {}) /\ UNCHANGED loc
           ELSE GetExcept(p) /\ UNCHANGED colls
    /\ UNCHANGED op

\* get_schema_field_names: if not self.indexExist(...): return [], and in
\* get: if not schema_fields: continue
GetSchemaExist(p) ==
    /\ pc[p] = "ge_schema_exist"
    /\ \E ok \in BOOLEAN :
        /\ Issue(p, "has_collection", GetCheckedName(p), ok)
        /\ IF IndexExistResult(ok, colls[GetCheckedName(p)].exists)
           THEN Goto(p, "ge_schema_open", IndexExistLog(ok)) /\ UNCHANGED loc
           ELSE GetContinue(p, IndexExistLog(ok) \cup {"get_no_schema"})
    /\ UNCHANGED <<colls, op>>

\* get_schema_field_names: Collection(name=full_collection_name, ...), then
\* [field.name for field in schema.fields]; its except clause returns [].
GetSchemaOpen(p) ==
    /\ pc[p] = "ge_schema_open"
    /\ \E ok \in Answers(GetCheckedName(p)) :
        /\ Issue(p, "open", GetCheckedName(p), ok)
        /\ IF ok
           THEN /\ loc' = [loc EXCEPT ![p].fields =
                                  SchemaFields(colls[GetCheckedName(p)].dim)]
                /\ Goto(p, "ge_query", {})
           ELSE GetContinue(p, {"get_no_schema"})
    /\ UNCHANGED <<colls, op>>

\* results = collection.query(expr=expr, output_fields=schema_fields, limit=1);
\* if results: return results[0]
GetQuery(p) ==
    /\ pc[p] = "ge_query"
    /\ \E ok \in ExprAnswers(GetName(p), GetExpr(op[p].chunkId)) :
        LET found == DOMAIN Matching(colls[GetName(p)].rows, GetExpr(op[p].chunkId))
        IN /\ Issue(p, "query", GetName(p), ok)
           /\ IF ~ok THEN GetExcept(p)
              ELSE IF found = {} THEN GetContinue(p, {})
              ELSE \E r \in found :
                    /\ Return(p, GetDoc(Project(r, loc[p].fields)), {})
                    /\ UNCHANGED loc
    /\ UNCHANGED <<colls, op>>

(***************************************************************************)
(* search.  The engine ranks the rows that pass the filter by the L2       *)
(* distance of their vector to the query vector and answers with the first *)
(* `limit` of them; its ranking is a function of the rows and the query.   *)
(***************************************************************************)
MaxOffset == 2
MaxLimit == 2

\* A vector stands for a point on a line.
Coordinate(v) == IF v = V1 THEN 0 ELSE IF v = V2 THEN 1 ELSE 2

Distance(q, v) == (Coordinate(q) - Coordinate(v)) * (Coordinate(q) - Coordinate(v))

\* The rows of a bag the filter text selects.
Passing(rows, text) == [r \in {r \in DOMAIN rows : Selects(r, text)} |-> rows[r]]

\* The rows of a bag by increasing distance of their vector to the query.
RECURSIVE Ranked(_, _, _)
Ranked(rows, field, q) ==
    IF DOMAIN rows = {} THEN <<>>
    ELSE LET r == CHOOSE r \in DOMAIN rows :
                    \A o \in DOMAIN rows : Distance(q, r[field]) <= Distance(q, o[field])
         IN <<r>> \o Ranked(rows (-) SetToBag({r}), field, q)

\* collection.search(...)[0]: the first `limit` of the ranked rows that pass
\* the filter, each with its output fields and its distance.
Hits(rows, field, q, text, limit, fields) ==
    LET all == Ranked(Passing(rows, text), field, q)
    IN [n \in 1..(IF limit < Len(all) THEN limit ELSE Len(all)) |->
           [entity |-> Project(all[n], fields), distance |-> Distance(q, all[n][field])]]

MatchDenseExpr(v) == [kind |-> "dense", data |-> v]
MatchTextExpr == [kind |-> "text", data |-> <<>>]

\* current_index_name = indexNames[0] if isinstance(indexNames, list) else indexNames
CurrentIndexName(indexNames) ==
    IF indexNames.t = "list" THEN indexNames.l[1] ELSE indexNames.s

\* actual_output_fields
ActualOutputFields(selectFields, dim) ==
    IF selectFields = {} \/ "*" \in selectFields THEN ScalarFields
    ELSE selectFields \cup {"id"}

\* A faulty variant: the offset is not applied to the hits.
PaginatedHitsFromStart(hits, offset, limit) ==
    SubSeq(hits, 1, IF limit < Len(hits) THEN limit ELSE Len(hits))

\* paginated_hits = hits[offset : offset + limit]
PaginatedHits(hits, offset, limit) ==
    SubSeq(hits, offset + 1, IF offset + limit < Len(hits) THEN offset + limit ELSE Len(hits))

\* result_doc = hit.entity.to_dict(); result_doc['score'] = hit.distance
ResultDoc(hit) == [f \in DOMAIN hit.entity \cup {"score"} |->
                      IF f = "score" THEN hit.distance ELSE hit.entity[f]]

\* A faulty variant: the documents of a later collection come first.
AppendResultsInFront(results_list, hits) ==
    [n \in 1..Len(hits) |-> ResultDoc(hits[n])] \o results_list

\* results_list.append(result_doc) for each hit of the page
AppendResults(results_list, hits) ==
    results_list \o [n \in 1..Len(hits) |-> ResultDoc(hits[n])]

\* The arguments of search.
SearchIndexNames == {PyList(<<IDX>>), PyList(<<IDX, JDX>>), PyStr(IDX)}
SearchKbIds == {<<>>, <<KB1>>, <<KB2, KB1>>, <<KB3>>, <<KB3, KB1>>}
Entry(k, v) == [k |-> k, v |-> v]
SearchConditions ==
    {<<>>,
     <<Entry("content_ltks", PyStr(A))>>,
     <<Entry("id", PyList(<<X, Y>>))>>,
     <<Entry("page_num_int", PyInt)>>,
     <<Entry("page_num_int", PyInt), Entry("content_ltks", PyStr(A))>>,
     <<Entry("id", PyStr(<<"n", "'", "or", "id", "!=", "'", "n">>))>>,
     <<Entry("id", PyStr(<<"x", "'">>))>>}
SearchMatchExprs ==
    {<<>>, <<MatchDenseExpr(V1)>>, <<MatchTextExpr, MatchDenseExpr(V1)>>,
     <<MatchDenseExpr(V2), MatchDenseExpr(V1)>>}
SearchSelectFields == {{}, {"content_ltks"}}

SearchCall(p, prior) ==
    \E indexNames \in SearchIndexNames, knowledgebaseIds \in SearchKbIds,
       condition \in SearchConditions, matchExprs \in SearchMatchExprs,
       selectFields \in SearchSelectFields,
       offset \in 0..MaxOffset, limit \in 1..MaxLimit :
        /\ pc' = [pc EXCEPT ![p] = "se_start"]
        /\ UNCHANGED dbs
        /\ op' = [op EXCEPT ![p] =
                    [NoOp EXCEPT !.name = "search", !.indexNames = indexNames,
                                 !.kbIds = knowledgebaseIds, !.condition = condition,
                                 !.matchExprs = matchExprs, !.selectFields = selectFields,
                                 !.offset = offset, !.limit = limit]]
        /\ loc' = [loc EXCEPT ![p] = [NoLoc EXCEPT !.prior = prior]]
        /\ ret' = [ret EXCEPT ![p] = NoRet]
        /\ log' = [log EXCEPT ![p] = {}]
        /\ calls' = [calls EXCEPT ![p] = <<>>]
        /\ UNCHANGED colls

SearchInvoke(p) == Ready(p) /\ SearchCall(p, NoPrior)

\* The caller repeats the search it has just taken the result of.
SearchInvokeAgain(p) ==
    /\ pc[p] = "done" /\ op[p].name = "search"
    /\ pc' = [pc EXCEPT ![p] = "se_start"]
    /\ UNCHANGED dbs
    /\ loc' = [loc EXCEPT ![p] = [NoLoc EXCEPT !.prior = Prior(p)]]
    /\ ret' = [ret EXCEPT ![p] = NoRet]
    /\ log' = [log EXCEPT ![p] = {}]
    /\ calls' = [calls EXCEPT ![p] = <<>>]
    /\ UNCHANGED <<colls, op>>

\* if not knowledgebaseIds: return []
SearchStart(p) ==
    /\ pc[p] = "se_start"
    /\ IF op[p].kbIds = <<>>
       THEN Return(p, <<>>, {"search_no_kb"}) /\ UNCHANGED loc
       ELSE /\ loc' = [loc EXCEPT ![p].todo = op[p].kbIds]
            /\ Goto(p, "se_exist", {})
    /\ UNCHANGED <<colls, op, calls>>

SearchName(p) == CollectionName(CurrentIndexName(op[p].indexNames), Head(loc[p].todo))
SearchCheckedName(p) ==
    IndexExistName(CurrentIndexName(op[p].indexNames), Head(loc[p].todo))

\* The end of an iteration of the loop over knowledgebaseIds, and
\* return results_list after the last one.
SearchContinue(p, results_list, records) ==
    /\ loc' = [loc EXCEPT ![p].todo = Tail(@), ![p].acc = results_list,
                          ![p].mtodo = <<>>]
    /\ IF Len(loc[p].todo) = 1
       THEN Return(p, results_list, records)
       ELSE Goto(p, "se_exist", records)

\* A faulty variant: a collection that does not exist ends the search with
\* an exception.
SearchSkipRaises(p, records) == Raise(p, records) /\ UNCHANGED loc

\* if not self.indexExist(current_index_name, kb_id): continue
SearchSkip(p, records) == SearchContinue(p, loc[p].acc, records)

\* except Exception: log the error; the loop goes on with the next
\* knowledge base and keeps the results it has.
SearchExcept(p) == SearchContinue(p, loc[p].acc, {"search_failed"})

SearchExist(p) ==
    /\ pc[p] = "se_exist"
    /\ \E ok \in BOOLEAN :
        /\ Issue(p, "has_collection", SearchCheckedName(p), ok)
        /\ IF IndexExistResult(ok, colls[SearchCheckedName(p)].exists)
           THEN Goto(p, "se_open", IndexExistLog(ok)) /\ UNCHANGED loc
           ELSE SearchSkip(p, IndexExistLog(ok) \cup {"search_skip"})
    /\ UNCHANGED <<colls, op>>

\* collection = Collection(name=collection_name, ...)
SearchOpen(p) ==
    /\ pc[p] = "se_open"
    /\ \E ok \in Answers(SearchName(p)) :
        /\ Issue(p, "open", SearchName(p), ok)
        /\ IF ok THEN Goto(p, "se_load", {}) /\ UNCHANGED loc ELSE SearchExcept(p)
    /\ UNCHANGED <<colls, op>>

\* collection.load(), then the filter expression; a search without match
\* expressions goes on with the next knowledge base.
SearchLoad(p) ==
    /\ pc[p] = "se_load"
    /\ \E ok \in LoadAnswers(SearchName(p)) :
        /\ Issue(p, "load", SearchName(p), ok)
        /\ IF ~ok THEN SearchExcept(p) /\ UNCHANGED colls
           ELSE /\ colls' = Loaded(SearchName(p))
                /\ IF op[p].matchExprs = <<>>
                   THEN SearchContinue(p, loc[p].acc, {})
                   ELSE /\ loc' = [loc EXCEPT ![p].filter = SearchExpr(op[p].condition),
                                              ![p].mtodo = op[p].matchExprs]
                        /\ Goto(p, "se_match", {})
    /\ UNCHANGED op

\* The end of an iteration of the loop over matchExprs.
SearchNextExpr(p, results_list, records) ==
    IF Len(loc[p].mtodo) = 1
    THEN SearchContinue(p, results_list, records)
    ELSE /\ loc' = [loc EXCEPT ![p].mtodo = Tail(@), ![p].acc = results_list]
         /\ Goto(p, "se_match", records)

\* A MatchDenseExpr: collection.search with limit + offset, the slice of the
\* hits and the documents appended to results_list.
SearchDense(p) ==
    /\ pc[p] = "se_match"
    /\ Head(loc[p].mtodo).kind = "dense"
    /\ LET name == SearchName(p)
           dim == colls[name].dim
           hits == Hits(colls[name].rows, VectorFieldName(dim), Head(loc[p].mtodo).data,
                        loc[p].filter, op[p].limit + op[p].offset,
                        ActualOutputFields(op[p].selectFields, dim))
       IN \E ok \in (IF Accepts(loc[p].filter) THEN Answers(name) ELSE {FALSE}) :
            /\ calls' = [calls EXCEPT ![p] =
                            Append(@, [rpc |-> "search", coll |-> name, ok |-> ok,
                                       limit |-> op[p].limit + op[p].offset,
                                       expr |-> loc[p].filter])]
            /\ IF ok
               THEN SearchNextExpr(p,
                        AppendResults(loc[p].acc,
                            PaginatedHits(hits, op[p].offset, op[p].limit)), {})
               ELSE SearchExcept(p)
    /\ UNCHANGED <<colls, op>>

\* A MatchTextExpr: a warning, and nothing is searched.
SearchText(p) ==
    /\ pc[p] = "se_match"
    /\ Head(loc[p].mtodo).kind = "text"
    /\ SearchNextExpr(p, loc[p].acc, {"text_not_implemented"})
    /\ UNCHANGED <<colls, op, calls>>

(***************************************************************************)
(* The specification: one client calls the operations one after another.   *)
(***************************************************************************)
Step(p) ==
    \/ IndexExistInvoke(p) \/ IndexExistHas(p)
    \/ HealthInvoke(p) \/ HealthConn(p) \/ HealthList(p)
    \/ CreateIdxInvoke(p) \/ CreateIdxExist(p) \/ CreateIdxCollection(p)
    \/ CreateIdxIndex(p) \/ CreateIdxLoad(p)
    \/ DeleteIdxInvoke(p) \/ DeleteIdxExist(p) \/ DeleteIdxDrop(p)
    \/ InsertInvoke(p) \/ InsertExist(p) \/ InsertOpen(p) \/ InsertLoad(p)
    \/ InsertInsert(p) \/ InsertFlush(p)
    \/ UpdateInvoke(p) \/ UpdateExist(p) \/ UpdateOpen(p) \/ UpdateLoad(p)
    \/ UpdateQuery(p) \/ UpdateDelete(p) \/ UpdateInsert(p) \/ UpdateFlush(p)
    \/ DeleteInvoke(p) \/ DeleteExist(p) \/ DeleteOpen(p) \/ DeleteLoad(p)
    \/ DeleteDelete(p) \/ DeleteFlush(p)
    \/ Forget(p)

Next == Step("c1")

Spec == Init /\ [][Next]_vars

(***************************************************************************)
(* The specification of the index operations alone: one client calls       *)
(* createIdx, deleteIdx, indexExist and health, with every kind of         *)
(* knowledgebaseId.                                                        *)
(***************************************************************************)
IdxStep(p) ==
    \/ IndexExistInvoke(p) \/ IndexExistHas(p)
    \/ HealthInvoke(p) \/ HealthConn(p) \/ HealthList(p)
    \/ CreateIdxInvokeAny(p) \/ CreateIdxExist(p) \/ CreateIdxCollection(p)
    \/ CreateIdxIndex(p) \/ CreateIdxLoad(p)
    \/ DeleteIdxInvokeAny(p) \/ DeleteIdxExist(p) \/ DeleteIdxDrop(p)
    \/ Forget(p)

NextIdx == IdxStep("c1")

SpecIdx == Init /\ [][NextIdx]_vars

(***************************************************************************)
(* The specification of the race: a collection created by createIdx holds  *)
(* the row insert stored for one document, and two clients each call       *)
(* update or delete for its id, their requests interleaving freely.        *)
(***************************************************************************)
RaceTargets == {<<IDX, KB1>>}
RaceConds == {[id |-> PyStr(X)]}

RaceRow ==
    PrepareDoc(DictSet(BareDoc(X), "embedding", V1), VectorFieldName(8), KB1).doc

InitRace ==
    /\ dbs = {}
    /\ colls = [n \in Names |->
                  IF n = CollectionName(IDX, KB1)
                  THEN [exists |-> TRUE, indexed |-> TRUE, loaded |-> TRUE, dim |-> 8,
                        schema |-> CreateIdxFields(8),
                        rows |-> SetToBag({RaceRow})]
                  ELSE Absent]
    /\ pc = [p \in Clients |-> "idle"]
    /\ op = [p \in Clients |-> NoOp]
    /\ loc = [p \in Clients |-> NoLoc]
    /\ ret = [p \in Clients |-> NoRet]
    /\ log = [p \in Clients |-> {}]
    /\ calls = [p \in Clients |-> <<>>]

UpdateInvokeRace(p) == UpdateCall(p, RaceTargets, RaceConds)
DeleteInvokeRace(p) == DeleteCall(p, RaceTargets, RaceConds)

RaceStep(p) ==
    \/ UpdateInvokeRace(p) \/ UpdateExist(p) \/ UpdateOpen(p) \/ UpdateLoad(p)
    \/ UpdateQuery(p) \/ UpdateDelete(p) \/ UpdateInsert(p) \/ UpdateFlush(p)
    \/ DeleteInvokeRace(p) \/ DeleteExist(p) \/ DeleteOpen(p) \/ DeleteLoad(p)
    \/ DeleteDelete(p) \/ DeleteFlush(p)

NextRace == \E p \in Clients : RaceStep(p)

SpecRace == InitRace /\ [][NextRace]_vars

(***************************************************************************)
(* Reads after writes: one client inserts single documents into, deletes   *)
(* by id from, and gets from two collections that exist; the second one    *)
(* can be dropped.                                                         *)
(***************************************************************************)
\* The batches inserted: one document, with content_ltks a or b.
GetBatches ==
    IF TotalRows(colls) >= MaxRows THEN {<<>>}
    ELSE {<<[id |-> X, content_ltks |-> A, embedding |-> V1]>>,
          <<[id |-> X, content_ltks |-> B, embedding |-> V1]>>,
          <<[id |-> Y, content_ltks |-> A, embedding |-> V1]>>}

GetDeleteConds == {[id |-> PyStr(X)]}

InitGet ==
    /\ dbs = {}
    /\ colls = [n \in Names |->
                  IF n \in {CollectionName(t[1], t[2]) : t \in CreateTargets}
                  THEN [exists |-> TRUE, indexed |-> TRUE, loaded |-> TRUE, dim |-> 8,
                        schema |-> CreateIdxFields(8),
                        rows |-> EmptyBag]
                  ELSE Absent]
    /\ pc = [p \in Clients |-> "idle"]
    /\ op = [p \in Clients |-> NoOp]
    /\ loc = [p \in Clients |-> NoLoc]
    /\ ret = [p \in Clients |-> NoRet]
    /\ log = [p \in Clients |-> {}]
    /\ calls = [p \in Clients |-> <<>>]

InsertInvokeGet(p) == InsertCall(p, CreateTargets)
InsertLoadGet(p) == InsertLoadFrom(p, GetBatches)
DeleteInvokeGet(p) == DeleteCall(p, CreateTargets, GetDeleteConds)
DeleteIdxInvokeGet(p) == DeleteIdxCall(p, {<<IDX, KB2>>})

GetStep(p) ==
    \/ InsertInvokeGet(p) \/ InsertExist(p) \/ InsertOpen(p) \/ InsertLoadGet(p)
    \/ InsertInsert(p) \/ InsertFlush(p)
    \/ DeleteInvokeGet(p) \/ DeleteExist(p) \/ DeleteOpen(p) \/ DeleteLoad(p)
    \/ DeleteDelete(p) \/ DeleteFlush(p)
    \/ DeleteIdxInvokeGet(p) \/ DeleteIdxExist(p) \/ DeleteIdxDrop(p)
    \/ GetInvoke(p) \/ GetInvokeAfter(p)
    \/ GetExist(p) \/ GetOpen(p) \/ GetLoad(p) \/ GetSchemaExist(p)
    \/ GetSchemaOpen(p) \/ GetQuery(p)
    \/ Forget(p)

NextGet == GetStep("c1")

SpecGet == InitGet /\ [][NextGet]_vars

(***************************************************************************)
(* Searches: one client searches three collections that hold rows; the     *)
(* collections of the knowledge base q do not exist.                       *)
(***************************************************************************)
SearchRow(id, kb, content, page, vec) ==
    [id |-> id, kb_id |-> kb, content_ltks |-> content, page_num_int |-> page,
     q_8_vec |-> vec]

V3 == <<"v3">>

SearchRows(name) ==
    IF name = CollectionName(IDX, KB1)
    THEN {SearchRow(X, KB1, A, <<"5">>, V1), SearchRow(Y, KB1, A, <<"6">>, V2),
          SearchRow(<<"z">>, KB1, B, <<"5">>, V3)}
    ELSE IF name = CollectionName(IDX, KB2)
    THEN {SearchRow(<<"u">>, KB2, A, <<"5">>, V2), SearchRow(X, KB2, B, <<"6">>, V3)}
    ELSE IF name = CollectionName(JDX, KB1)
    THEN {SearchRow(<<"w">>, KB1, A, <<"5">>, V1)}
    ELSE {}

InitSearch ==
    /\ dbs = {}
    /\ colls = [n \in Names |->
                  IF SearchRows(n) # {}
                  THEN [exists |-> TRUE, indexed |-> TRUE, loaded |-> TRUE, dim |-> 8,
                        schema |-> CreateIdxFields(8),
                        rows |-> SetToBag(SearchRows(n))]
                  ELSE Absent]
    /\ pc = [p \in Clients |-> "idle"]
    /\ op = [p \in Clients |-> NoOp]
    /\ loc = [p \in Clients |-> NoLoc]
    /\ ret = [p \in Clients |-> NoRet]
    /\ log = [p \in Clients |-> {}]
    /\ calls = [p \in Clients |-> <<>>]

SearchStep(p) ==
    \/ SearchInvoke(p) \/ SearchInvokeAgain(p) \/ SearchStart(p) \/ SearchExist(p)
    \/ SearchOpen(p) \/ SearchLoad(p) \/ SearchDense(p) \/ SearchText(p)
    \/ Forget(p)

NextSearch == SearchStep("c1")

SpecSearch == InitSearch /\ [][NextSearch]_vars

(***************************************************************************)
(* The filter of search as a function of the condition: the caller hands   *)
(* in a condition of at most MaxEntries entries and the filter text is     *)
(* built from it.                                                          *)
(***************************************************************************)
MaxEntries == 2

\* A string with quotes in it: n' or id != 'n
Quoted == <<"n", "'", "or", "id", "!=", "'", "n">>

FilterFields == {"id", "content_ltks", "page_num_int"}
FilterValues ==
    {PyStr(A), PyStr(Quoted), PyList(<<X, Y>>), PyList(<<X>>), PyList(<<>>), PyInt, PyBool}

\* The conditions of at most n entries: a dict has every key once.
RECURSIVE FilterConditions(_)
FilterConditions(n) ==
    IF n = 0 THEN {<<>>}
    ELSE FilterConditions(n - 1)
            \cup {Append(c, Entry(k, v)) :
                     c \in {c \in FilterConditions(n - 1) : Len(c) = n - 1},
                     k \in FilterFields, v \in FilterValues}

UniqueKeys(c) == \A i, j \in 1..Len(c) : c[i].k = c[j].k => i = j

\* The rows the filters are evaluated on.
FilterRows ==
    {SearchRow(i, KB1, c, n, V1) : i \in {X, <<"n">>}, c \in {A, B}, n \in {<<"5">>, <<"6">>}}

InitFilter ==
    /\ dbs = {}
    /\ colls = [n \in Names |-> Absent]
    /\ pc = [p \in Clients |-> "idle"]
    /\ op = [p \in Clients |-> NoOp]
    /\ loc = [p \in Clients |-> NoLoc]
    /\ ret = [p \in Clients |-> NoRet]
    /\ log = [p \in Clients |-> {}]
    /\ calls = [p \in Clients |-> <<>>]

\* search, from a condition to its final_filter_expr.
FilterBuild(p) ==
    /\ Ready(p)
    /\ \E condition \in {c \in FilterConditions(MaxEntries) : UniqueKeys(c)} :
        /\ op' = [op EXCEPT ![p] = [NoOp EXCEPT !.name = "search",
                                                !.condition = condition]]
        /\ loc' = [loc EXCEPT ![p] = [NoLoc EXCEPT !.filter = SearchExpr(condition)]]
    /\ pc' = [pc EXCEPT ![p] = "done"]
    /\ UNCHANGED dbs
    /\ UNCHANGED <<colls, ret, log, calls>>

NextFilter == FilterBuild("c1") \/ Forget("c1")

SpecFilter == InitFilter /\ [][NextFilter]_vars

(***************************************************************************)
(* Ids with quotes: a collection holds the rows of two documents, and one  *)
(* client calls delete, update and get with ids some of which hold a       *)
(* single quote.                                                           *)
(***************************************************************************)
QuoteIds == {X, Quoted, <<"x", "'">>}
QuoteConds ==
    {[id |-> PyStr(i)] : i \in QuoteIds}
        \cup {[id |-> PyList(<<X, Quoted>>)],
              [id |-> PyStr(<<"n">>), kb_id |-> PyStr(<<"k", "'", "or", "id", "!=", "'", "n">>)]}
QuoteTargets == {<<IDX, KB1>>}
QuoteGetTargets == {<<IDX, PyList(<<KB1>>)>>}

QuoteRow(id) ==
    PrepareDoc(DictSet(BareDoc(id), "embedding", V1), VectorFieldName(8), KB1).doc

InitQuote ==
    /\ dbs = {}
    /\ colls = [n \in Names |->
                  IF n = CollectionName(IDX, KB1)
                  THEN [exists |-> TRUE, indexed |-> TRUE, loaded |-> TRUE, dim |-> 8,
                        schema |-> CreateIdxFields(8),
                        rows |-> SetToBag({QuoteRow(X), QuoteRow(Y)})]
                  ELSE Absent]
    /\ pc = [p \in Clients |-> "idle"]
    /\ op = [p \in Clients |-> NoOp]
    /\ loc = [p \in Clients |-> NoLoc]
    /\ ret = [p \in Clients |-> NoRet]
    /\ log = [p \in Clients |-> {}]
    /\ calls = [p \in Clients |-> <<>>]

UpdateInvokeQuote(p) == UpdateCall(p, QuoteTargets, QuoteConds)
DeleteInvokeQuote(p) == DeleteCall(p, QuoteTargets, QuoteConds)
GetInvokeQuote(p) == Ready(p) /\ GetCall(p, QuoteIds, QuoteGetTargets, NoPrior)

QuoteStep(p) ==
    \/ UpdateInvokeQuote(p) \/ UpdateExist(p) \/ UpdateOpen(p) \/ UpdateLoad(p)
    \/ UpdateQuery(p) \/ UpdateDelete(p) \/ UpdateInsert(p) \/ UpdateFlush(p)
    \/ DeleteInvokeQuote(p) \/ DeleteExist(p) \/ DeleteOpen(p) \/ DeleteLoad(p)
    \/ DeleteDelete(p) \/ DeleteFlush(p)
    \/ GetInvokeQuote(p) \/ GetExist(p) \/ GetOpen(p) \/ GetLoad(p)
    \/ GetSchemaExist(p) \/ GetSchemaOpen(p) \/ GetQuery(p)
    \/ Forget(p)

NextQuote == QuoteStep("c1")

SpecQuote == InitQuote /\ [][NextQuote]_vars

(***************************************************************************)
(* Construction: two processes construct a connector each, for a tenant.   *)
(* Each connects, asks whether the tenant's database exists and creates it *)
(* when the answer is no; the engine refuses to create a database that     *)
(* exists.                                                                 *)
(***************************************************************************)
Tenants == {<<"t">>, <<"t", "-", "1">>, <<"t", "_", "1">>, <<"t", "-", "1", "-", "2">>}

\* self.db_name = f"rag_{tenant.replace('-', '_')}"
DbName(tenant) == <<"rag", "_">> \o Replace(tenant)

\* if len(self.db_name) > 63: logging.warning(...)
DbNameLog(name) == IF Len(name) > NameLimit THEN {"db_name_too_long"} ELSE {}

InitInvoke(p) ==
    \E tenant \in Tenants :
        Begin(p, [NoOp EXCEPT !.name = "init", !.tenant = tenant], "in_connect")

\* _create_connection: except Exception: logging.error(...); raise
ConnectExcept(p) == Raise(p, {"connect_failed"})

\* _create_connection: one pymilvus.connections.connect(**conn_params), then
\* db_name and the warning about its length.
InitConnect(p) ==
    /\ pc[p] = "in_connect"
    /\ \E ok \in BOOLEAN :
        /\ Issue(p, "connect", <<>>, ok)
        /\ IF ok THEN Goto(p, "in_has", DbNameLog(DbName(op[p].tenant)))
           ELSE ConnectExcept(p)
    /\ UNCHANGED <<colls, op, loc>>

\* _create_db_if_not_exists: except Exception: logging.error(...); raise
CreateDbExcept(p, records) == Raise(p, records \cup {"db_failed"})

\* if not pymilvus.utility.has_database(self.db_name, ...)
InitHasDatabase(p) ==
    /\ pc[p] = "in_has"
    /\ \E ok \in NameAnswers(DbName(op[p].tenant)) :
        /\ Issue(p, "has_database", DbName(op[p].tenant), ok)
        /\ IF ~ok THEN CreateDbExcept(p, {})
           ELSE IF DbName(op[p].tenant) \in dbs THEN Return(p, "None", {"db_used"})
           ELSE Goto(p, "in_create", {})
    /\ UNCHANGED <<colls, op, loc>>

\* pymilvus.utility.create_database(self.db_name, ...): the engine creates
\* the database, or answers that it exists already, or fails.
InitCreateDatabase(p) ==
    /\ pc[p] = "in_create"
    /\ LET name == DbName(op[p].tenant) IN
       IF name \in dbs
       THEN /\ Issue(p, "create_database", name, FALSE)
            /\ CreateDbExcept(p, {"already_exists"})
       ELSE \E ok \in BOOLEAN :
            /\ Issue(p, "create_database", name, ok)
            /\ IF ~ok THEN CreateDbExcept(p, {})
               ELSE /\ dbs' = dbs \cup {name}
                    /\ pc' = [pc EXCEPT ![p] = "done"]
                    /\ ret' = [ret EXCEPT ![p] = [kind |-> "value", val |-> "None"]]
                    /\ log' = [log EXCEPT ![p] = @ \cup {"db_created", "db_used"}]
    /\ UNCHANGED <<colls, op, loc>>

ConnStep(p) ==
    \/ InitInvoke(p) \/ InitConnect(p) \/ InitHasDatabase(p) \/ InitCreateDatabase(p)
    \/ Forget(p)

NextConn == \E p \in Clients : ConnStep(p)

SpecConn == Init /\ [][NextConn]_vars

(***************************************************************************)
(* Names: two clients call createIdx, indexExist and deleteIdx with pairs  *)
(* of index name and knowledge base id whose collection names meet, and    *)
(* with a knowledge base id that makes the name too long.                  *)
(***************************************************************************)
IndexExistInvokeName(p) ==
    \E t \in NameTargets :
        Begin(p, [NoOp EXCEPT !.name = "indexExist", !.indexName = t[1],
                              !.kbId = t[2]], "ix_has")
CreateIdxInvokeName(p) == CreateIdxCall(p, NameTargets, VectorSizes)
DeleteIdxInvokeName(p) == DeleteIdxCall(p, NameTargets)

NameStep(p) ==
    \/ IndexExistInvokeName(p) \/ IndexExistHas(p)
    \/ CreateIdxInvokeName(p) \/ CreateIdxExist(p) \/ CreateIdxCollection(p)
    \/ CreateIdxIndex(p) \/ CreateIdxLoad(p)
    \/ DeleteIdxInvokeName(p) \/ DeleteIdxExist(p) \/ DeleteIdxDrop(p)
    \/ Forget(p)

NextName == \E p \in Clients : NameStep(p)

SpecName == Init /\ [][NextName]_vars

(***************************************************************************)
(* The operations that send the engine nothing: getFields, getHighlight,   *)
(* getAggregation and sql, called by one client on a store that is empty   *)
(* or holds a collection with rows.                                        *)
(***************************************************************************)
MaxDocs == 2

\* The fields of a list, as a set.
Elems(seq) == {seq[n] : n \in 1..Len(seq)}

\* A faulty variant: a document with none of the fields gets an empty entry.
RECURSIVE GetFieldsWithEmptyEntries(_, _, _)
GetFieldsWithEmptyEntries(res, fields, res_fields) ==
    IF res = <<>> THEN res_fields
    ELSE LET doc == Head(res)
         IN GetFieldsWithEmptyEntries(Tail(res), fields,
                IF "id" \notin DOMAIN doc THEN res_fields
                ELSE DictSet(res_fields, doc["id"], Project(doc, Elems(fields))))

\* getFields, the loop over res: a document without "id" is skipped, the
\* fields of the list the document has are extracted, and the extraction is
\* stored under the id when it is not empty.
RECURSIVE GetFieldsLoop(_, _, _)
GetFieldsLoop(res, fields, res_fields) ==
    IF res = <<>> THEN res_fields
    ELSE LET doc == Head(res)
             extracted_data == Project(doc, Elems(fields))
         IN GetFieldsLoop(Tail(res), fields,
                IF "id" \notin DOMAIN doc \/ DOMAIN extracted_data = {} THEN res_fields
                ELSE DictSet(res_fields, doc["id"], extracted_data))

\* getFields: if not fields: return {}
GetFields(res, fields) ==
    IF fields = <<>> THEN EmptyDict ELSE GetFieldsLoop(res, fields, EmptyDict)

GetFieldsLog(res, fields) ==
    IF fields # <<>> /\ \E n \in 1..Len(res) : "id" \notin DOMAIN res[n]
    THEN {"missing_id"} ELSE {}

\* A faulty variant: the result has an entry per document.
GetHighlightOfEveryDoc(res, keywords, fieldnm) ==
    [i \in {res[n]["id"] : n \in {n \in 1..Len(res) : "id" \in DOMAIN res[n]}} |-> <<>>]

\* getHighlight: return {}
GetHighlight(res, keywords, fieldnm) == EmptyDict

\* getAggregation: return []
GetAggregation(res, fieldnm) == <<>>

\* The documents of a result list, and the result lists of at most n documents.
LocalDocs ==
    {[id |-> X, content_ltks |-> A],
     [id |-> X, content_ltks |-> B, kb_id |-> KB1],
     [id |-> Y, kb_id |-> KB1],
     [id |-> Y],
     [content_ltks |-> A]}

RECURSIVE LocalResults(_)
LocalResults(n) ==
    IF n = 0 THEN {<<>>}
    ELSE LocalResults(n - 1)
            \cup {Append(r, d) : r \in {r \in LocalResults(n - 1) : Len(r) = n - 1},
                                 d \in LocalDocs}

LocalFields ==
    {<<>>, <<"content_ltks">>, <<"content_ltks", "kb_id">>, <<"id">>, <<"doc_id">>}

\* One call of an operation that issues nothing: it is at its result at once.
LocalCall(p, o, kind, val, records) ==
    /\ Ready(p)
    /\ pc' = [pc EXCEPT ![p] = "done"]
    /\ op' = [op EXCEPT ![p] = o]
    /\ loc' = [loc EXCEPT ![p] = NoLoc]
    /\ ret' = [ret EXCEPT ![p] = [kind |-> kind, val |-> val]]
    /\ log' = [log EXCEPT ![p] = records]
    /\ calls' = [calls EXCEPT ![p] = <<>>]
    /\ UNCHANGED <<colls, dbs>>

GetFieldsInvoke(p) ==
    \E res \in LocalResults(MaxDocs), fields \in LocalFields :
        LocalCall(p, [NoOp EXCEPT !.name = "getFields", !.res = res, !.fields = fields],
                  "value", GetFields(res, fields), GetFieldsLog(res, fields))

GetHighlightInvoke(p) ==
    \E res \in LocalResults(1), keywords \in {<<>>, <<A>>}, fieldnm \in {"content_ltks"} :
        LocalCall(p, [NoOp EXCEPT !.name = "getHighlight", !.res = res,
                                   !.args = <<keywords, fieldnm>>],
                  "value", GetHighlight(res, keywords, fieldnm), {})

GetAggregationInvoke(p) ==
    \E res \in LocalResults(1), fieldnm \in {"content_ltks", "kb_id"} :
        LocalCall(p, [NoOp EXCEPT !.name = "getAggregation", !.res = res,
                                   !.args = <<fieldnm>>],
                  "value", GetAggregation(res, fieldnm), {})

\* sql: logging.warning(...); raise NotImplementedError(...)
SqlInvoke(p) ==
    \E sql \in {<<>>, <<"select">>}, format \in {"dataframe", "json"} :
        LocalCall(p, [NoOp EXCEPT !.name = "sql", !.args = <<sql, format>>],
                  "raise", "NotImplementedError", {"sql_unsupported"})

InitLocal ==
    /\ dbs \in {{}, {DbName(<<"t">>)}}
    /\ colls \in {[n \in Names |-> Absent],
                   [n \in Names |->
                      IF n = CollectionName(IDX, KB1)
                      THEN [exists |-> TRUE, indexed |-> TRUE, loaded |-> TRUE, dim |-> 8,
                            schema |-> CreateIdxFields(8),
                            rows |-> SetToBag({QuoteRow(X), QuoteRow(Y)})]
                      ELSE Absent]}
    /\ pc = [p \in Clients |-> "idle"]
    /\ op = [p \in Clients |-> NoOp]
    /\ loc = [p \in Clients |-> NoLoc]
    /\ ret = [p \in Clients |-> NoRet]
    /\ log = [p \in Clients |-> {}]
    /\ calls = [p \in Clients |-> <<>>]

LocalStep(p) ==
    \/ GetFieldsInvoke(p) \/ GetHighlightInvoke(p) \/ GetAggregationInvoke(p)
    \/ SqlInvoke(p) \/ Forget(p)

NextLocal == LocalStep("c1")

SpecLocal == InitLocal /\ [][NextLocal]_vars

(***************************************************************************)
(* What the claims speak of.                                               *)
(***************************************************************************)
Running(p, name) == op[p].name = name /\ pc[p] \notin {"idle", "done"}
Finished(p, name) == op[p].name = name /\ pc[p] = "done"

\* The collections that exist, with their rows.
Store == [n \in Names |-> [exists |-> colls[n].exists, rows |-> colls[n].rows]]

\* Some row of the bag has this id.
HasId(rows, id) == \E r \in DOMAIN rows : r["id"] = id

\* The operation has issued a request of one of these kinds.
Issued(p, rpcs) == \E n \in 1..Len(calls[p]) : calls[p][n].rpc \in rpcs

ReturnedFalse(p) == ret[p].kind = "value" /\ ret[p].val = FALSE
ReturnedTrue(p) == ret[p].kind = "value" /\ ret[p].val = TRUE

\* The rows of update's target the fetch and the delete of this update select.
Selected(p) == Matching(colls[TargetName(p)].rows, UpdateExpr(op[p].cond))

(***************************************************************************)
(* C1.  An update whose condition names a string id that no row of the     *)
(* target collection has changes no collection (none is created or         *)
(* dropped, no row is deleted, inserted or modified) at any of its steps,  *)
(* and returns False.  (The id is missing when no row has it and the       *)
(* update has not itself deleted a row.)                                   *)
(***************************************************************************)
C1_MissingId(p) ==
    /\ Running(p, "update")
    /\ IsStr(op[p].cond, "id")
    /\ ~HasId(colls[TargetName(p)].rows, op[p].cond["id"].s)
    /\ ~loc[p].deleted

C1_UpdateOfMissingIdChangesNothing ==
    [][\A p \in Clients :
          C1_MissingId(p) =>
              /\ Store' = Store
              /\ pc'[p] = "done" => ReturnedFalse(p)']_vars

\* An update of a missing id has queried an existing collection holding
\* another row, and has returned.
C1_Witness ==
    \E p \in Clients :
        /\ Finished(p, "update")
        /\ IsStr(op[p].cond, "id")
        /\ ~HasId(colls[TargetName(p)].rows, op[p].cond["id"].s)
        /\ colls[TargetName(p)].rows # EmptyBag
        /\ Issued(p, {"query"})
        /\ "update_not_found" \in log[p]

(***************************************************************************)
(* C2.  When an update has deleted the row and its re-insert failed (the   *)
(* engine raised, or reported row errors), the update returns False and no *)
(* row selected by the update's condition is in the collection when it     *)
(* returns.                                                                *)
(***************************************************************************)
C2_ReinsertFailed(p) ==
    /\ Finished(p, "update")
    /\ loc[p].deleted
    /\ Issued(p, {"insert"})
    /\ ~loc[p].inserted

C2_FailedReinsertLosesTheRow ==
    \A p \in Clients :
        C2_ReinsertFailed(p) => ReturnedFalse(p) /\ Selected(p) = EmptyBag

\* The delete removed a row and the insert raised.
C2_Witness ==
    \E p \in Clients :
        /\ C2_ReinsertFailed(p)
        /\ loc[p].delCount > 0
        /\ ~calls[p][Len(calls[p])].ok
        /\ calls[p][Len(calls[p])].rpc = "insert"

(***************************************************************************)
(* C3.  An update that ends with the row deleted and not re-inserted has   *)
(* logged a record, and not the record of an id that was not found.        *)
(***************************************************************************)
C3_DataLossIsLoggedApart ==
    \A p \in Clients :
        (Finished(p, "update") /\ loc[p].deleted /\ ~loc[p].inserted) =>
            /\ "update_not_found" \notin log[p]
            /\ log[p] \cap {"update_exception", "update_insert_errors"} # {}

\* The re-insert reported row errors, the flush was answered.
C3_Witness ==
    \E p \in Clients :
        /\ Finished(p, "update")
        /\ loc[p].deleted /\ loc[p].delCount > 0
        /\ loc[p].errCount > 0
        /\ "update_insert_errors" \in log[p]

(***************************************************************************)
(* C5.  An update whose condition has no "id", or an "id" that is not a    *)
(* string, returns False and has issued no query, delete or insert.        *)
(***************************************************************************)
C5_BadConditionIssuesNothing ==
    \A p \in Clients :
        (Finished(p, "update") /\ ~IsStr(op[p].cond, "id")) =>
            /\ ReturnedFalse(p)
            /\ ~Issued(p, {"query", "delete", "insert"})

\* A list of ids, on a collection that exists.
C5_Witness ==
    \E p \in Clients :
        /\ Finished(p, "update")
        /\ "id" \in DOMAIN op[p].cond
        /\ op[p].cond["id"].t = "list"
        /\ colls[TargetName(p)].exists
        /\ "update_bad_condition" \in log[p]

(***************************************************************************)
(* C6.  As claimed: after a successful update the collection holds a row   *)
(* with the condition's id that has every entry of the new values (but a   *)
(* different "id"; an "embedding" entry counts as held when the row has    *)
(* its value under the vector field's name) and, in every other field, the *)
(* value fetched.                                                          *)
(***************************************************************************)
C6_OverlaysEveryEntry ==
    \A p \in Clients :
        (Finished(p, "update") /\ ReturnedTrue(p)) =>
            LET nv == op[p].newValue
                vec == VectorFieldName(colls[TargetName(p)].dim)
                stored(k) == IF k = "embedding" THEN vec ELSE k
            IN \E r \in DOMAIN colls[TargetName(p)].rows :
                /\ r["id"] = op[p].cond["id"].s
                /\ \A k \in DOMAIN nv \ {"id"} :
                      stored(k) \in DOMAIN r /\ r[stored(k)] = nv[k]
                /\ \A k \in DOMAIN loc[p].fetched \ {stored(j) : j \in DOMAIN nv} :
                      k \in DOMAIN r /\ r[k] = loc[p].fetched[k]

(***************************************************************************)
(* C6, amended.  After a successful update the collection holds a row with *)
(* the condition's id that has the "embedding" entry of the new values     *)
(* under the vector field's name and no "embedding" key, every other entry *)
(* of the new values (but a different "id", and but the entry under the    *)
(* vector field's name when there is an "embedding" entry too), and in     *)
(* every other field the value fetched.                                    *)
(***************************************************************************)
C6_OverlaysWithEmbeddingRenamed ==
    \A p \in Clients :
        (Finished(p, "update") /\ ReturnedTrue(p)) =>
            LET nv == op[p].newValue
                vec == VectorFieldName(colls[TargetName(p)].dim)
                emb == "embedding" \in DOMAIN nv
                overlaid == DOMAIN nv \ ({"id", "embedding"} \cup (IF emb THEN {vec} ELSE {}))
            IN \E r \in DOMAIN colls[TargetName(p)].rows :
                /\ r["id"] = op[p].cond["id"].s
                /\ "embedding" \notin DOMAIN r
                /\ emb => vec \in DOMAIN r /\ r[vec] = nv["embedding"]
                /\ \A k \in overlaid : k \in DOMAIN r /\ r[k] = nv[k]
                /\ \A k \in DOMAIN loc[p].fetched \ (overlaid \cup {"id"}
                                                      \cup (IF emb THEN {vec} ELSE {})) :
                      k \in DOMAIN r /\ r[k] = loc[p].fetched[k]
                /\ DOMAIN r = DOMAIN loc[p].fetched \cup overlaid
                                  \cup (IF emb THEN {vec} ELSE {})

\* A successful update whose new values carry another id.
C6_Witness ==
    \E p \in Clients :
        /\ Finished(p, "update") /\ ReturnedTrue(p)
        /\ "id" \in DOMAIN op[p].newValue
        /\ op[p].newValue["id"] # op[p].cond["id"].s
        /\ loc[p].fetched["content_ltks"] # op[p].newValue["content_ltks"]

(***************************************************************************)
(* C4.  Under two clients racing on one id: when a delete was answered     *)
(* after an update had fetched the row and before that update re-inserted  *)
(* it, and the update returns True, the row is in the collection again: the*)
(* delete did not keep it deleted.                                         *)
(***************************************************************************)
C4_DeleteInsideUpdateIsUndone ==
    \A p \in Clients, q \in Clients :
        (/\ Finished(p, "update") /\ ReturnedTrue(p)
         /\ op[q].name = "delete" /\ p \in loc[q].overlap) =>
            HasId(colls[TargetName(p)].rows, op[p].cond["id"].s)

\* The delete has returned that it deleted one row, between the fetch and
\* the re-insert of an update that has returned True: the row is present.
C4_Witness ==
    \E p \in Clients, q \in Clients :
        /\ Finished(p, "update") /\ ReturnedTrue(p)
        /\ Finished(q, "delete") /\ ret[q].kind = "value" /\ ret[q].val = 1
        /\ p \in loc[q].overlap
        /\ HasId(colls[TargetName(p)].rows, op[p].cond["id"].s)

\* The other end of the race: the delete was answered after the update's
\* re-insert, and the row is absent.
C4_EndsAbsent ==
    \E p \in Clients, q \in Clients :
        /\ Finished(p, "update") /\ ReturnedTrue(p)
        /\ Finished(q, "delete") /\ ret[q].kind = "value" /\ ret[q].val = 1
        /\ ~HasId(colls[TargetName(p)].rows, op[p].cond["id"].s)

\* Two updates racing: both return True and the collection holds two rows
\* with the id.
C4_TwoUpdatesDuplicate ==
    \E p \in Clients, q \in Clients :
        /\ p # q
        /\ Finished(p, "update") /\ ReturnedTrue(p)
        /\ Finished(q, "update") /\ ReturnedTrue(q)
        /\ BagCardinality(colls[TargetName(p)].rows) = 2

(***************************************************************************)
(* C7.  A createIdx called again with the arguments of a createIdx that    *)
(* completed, and whose existence check the engine answers, returns at     *)
(* once without an exception: it issues no create request and changes no   *)
(* collection.                                                             *)
(***************************************************************************)
\* A createIdx with these arguments has completed: the collection exists
\* with this vector size, indexed and loaded.
C7_Completed(p) ==
    LET c == colls[TargetName(p)]
    IN c.exists /\ c.indexed /\ c.loaded /\ c.dim = op[p].vectorSize

C7_Repeated(p) ==
    /\ op[p].name = "createIdx" /\ pc[p] = "cr_exist" /\ pc'[p] # "cr_exist"
    /\ C7_Completed(p)
    /\ calls'[p][1].ok

C7_SecondCreateIdxIsNoOp ==
    [][\A p \in Clients :
          C7_Repeated(p) =>
              /\ pc'[p] = "done" /\ ret'[p].kind = "value"
              /\ colls' = colls]_vars

\* The same, for a knowledgebaseId that is neither empty nor None.
C7_SecondCreateIdxIsNoOpForNonEmptyKb ==
    [][\A p \in Clients :
          (C7_Repeated(p) /\ Truthy(op[p].kbId)) =>
              /\ pc'[p] = "done" /\ ret'[p].kind = "value"
              /\ colls' = colls]_vars

(***************************************************************************)
(* C8.  indexExist returns True only for a collection whose creation has   *)
(* completed: it is indexed and loaded.                                    *)
(***************************************************************************)
C8_IndexExistOnlyWhenComplete ==
    \A p \in Clients :
        (Finished(p, "indexExist") /\ ReturnedTrue(p)) =>
            colls[CheckedName(p)].indexed /\ colls[CheckedName(p)].loaded

(***************************************************************************)
(* C9.  No step of indexExist or health changes a collection or ends with  *)
(* an exception; they return a boolean, and False when their last request  *)
(* failed.                                                                 *)
(***************************************************************************)
C9_ChecksNeverRaise ==
    [][\A p \in Clients :
          ((Running(p, "indexExist") \/ Running(p, "health")) /\ pc'[p] # pc[p]) =>
              /\ colls' = colls
              /\ ret'[p].kind # "raise"
              /\ pc'[p] = "done" =>
                    /\ ret'[p].kind = "value"
                    /\ ret'[p].val \in BOOLEAN
                    /\ ~calls'[p][Len(calls'[p])].ok => ret'[p].val = FALSE]_vars

\* The existence request for a collection that exists has failed, and
\* indexExist has returned False.
C9_Witness ==
    \E p \in Clients :
        /\ Finished(p, "indexExist")
        /\ colls[CheckedName(p)].exists
        /\ ~calls[p][1].ok
        /\ ReturnedFalse(p)

(***************************************************************************)
(* C10.  An insert whose collection does not exist (the name it writes to, *)
(* or the name whose existence it checks) changes no collection at any of  *)
(* its steps (none is created, no row is written) and ends with an         *)
(* exception.                                                              *)
(***************************************************************************)
C10_Missing(p) ==
    /\ Running(p, "insert")
    /\ ~colls[TargetName(p)].exists \/ ~colls[CheckedName(p)].exists

C10_InsertIntoMissingCollectionFails ==
    [][\A p \in Clients :
          (C10_Missing(p) /\ pc'[p] # pc[p]) =>
              /\ Store' = Store
              /\ pc'[p] = "done" => ret'[p].kind = "raise"]_vars

\* The existence check was answered for a collection that does not exist,
\* while another collection holds rows.
C10_Witness ==
    \E p \in Clients :
        /\ Finished(p, "insert")
        /\ ~colls[TargetName(p)].exists
        /\ calls[p][1].ok
        /\ ret[p].kind = "raise"
        /\ TotalRows(colls) > 0

\* Every request the operation has issued so far was answered.
Answered(p) == \A n \in 1..Len(calls[p]) : calls[p][n].ok

(***************************************************************************)
(* C11.  An insert of a batch with a document that has the vector neither  *)
(* under "embedding" nor under the vector field's name ends with an        *)
(* exception at the step that reads the batch, and changes no collection:  *)
(* no document of the batch is written.                                    *)
(***************************************************************************)
C11_LacksVector(doc, p) ==
    /\ "embedding" \notin DOMAIN doc
    /\ VectorFieldName(colls[TargetName(p)].dim) \notin DOMAIN doc

C11_BatchWithVectorlessDocumentFails ==
    [][\A p \in Clients :
          (/\ op'[p].name = "insert"
           /\ \E n \in 1..Len(op'[p].docs) : C11_LacksVector(op'[p].docs[n], p)) =>
              /\ Store' = Store
              /\ pc'[p] = "done" /\ ret'[p].kind = "raise"]_vars

\* A batch of a valid document followed by one without a vector has failed.
C11_Witness ==
    \E p \in Clients :
        /\ Finished(p, "insert") /\ ret[p].kind = "raise"
        /\ Len(op[p].docs) = 2
        /\ ~C11_LacksVector(op[p].docs[1], p)
        /\ C11_LacksVector(op[p].docs[2], p)
        /\ TotalRows(colls) = 0

(***************************************************************************)
(* C12.  Every row of an insert request has the vector under the vector    *)
(* field's name and has no "embedding" key.                                *)
(***************************************************************************)
C12_RowsCarryTheVectorOnce ==
    \A p \in Clients :
        (op[p].name = "insert" /\ Issued(p, {"insert"})) =>
            \A n \in 1..Len(loc[p].prepared) :
                /\ VectorFieldName(colls[TargetName(p)].dim) \in DOMAIN loc[p].prepared[n]
                /\ "embedding" \notin DOMAIN loc[p].prepared[n]

\* The same for the documents that give the vector under one of the two keys.
C12_RowsCarryTheVectorOnceUnlessBoth ==
    \A p \in Clients :
        (op[p].name = "insert" /\ Issued(p, {"insert"})) =>
            \A n \in 1..Len(loc[p].prepared) :
                LET vec == VectorFieldName(colls[TargetName(p)].dim) IN
                /\ vec \in DOMAIN loc[p].prepared[n]
                /\ ~({"embedding", vec} \subseteq DOMAIN op[p].docs[n]) =>
                      "embedding" \notin DOMAIN loc[p].prepared[n]

(***************************************************************************)
(* C13.  An insert that returns the empty list has persisted every         *)
(* document of the batch, and an insert for which the engine reported row  *)
(* errors (and answered the flush) returns a list that is not empty.       *)
(***************************************************************************)
C13_AllPersisted(p) ==
    /\ loc[p].errCount = 0
    /\ \A n \in 1..Len(loc[p].prepared) :
          loc[p].prepared[n] \in DOMAIN colls[TargetName(p)].rows

C13_EmptyListIffAllPersisted ==
    \A p \in Clients :
        Finished(p, "insert") =>
            /\ (ret[p].kind = "value" /\ ret[p].val = <<>>) => C13_AllPersisted(p)
            /\ (loc[p].errCount > 0 /\ Answered(p)) =>
                    ret[p].kind = "value" /\ ret[p].val # <<>>

\* The half that holds: an empty list never hides a row that was not persisted.
C13_EmptyListHidesNothing ==
    \A p \in Clients :
        (Finished(p, "insert") /\ ret[p].kind = "value" /\ ret[p].val = <<>>) =>
            C13_AllPersisted(p)

(***************************************************************************)
(* C14.  An insert, delete or update that has issued an insert or delete   *)
(* request and returns a success result (update: True) has issued, after   *)
(* the last such request, a flush that the engine answered.                *)
(***************************************************************************)
C14_Writes(p) == {n \in 1..Len(calls[p]) : calls[p][n].rpc \in {"insert", "delete"}}

C14_Success(p) ==
    /\ pc[p] = "done"
    /\ op[p].name \in {"insert", "delete", "update"}
    /\ ret[p].kind = "value"
    /\ op[p].name = "update" => ret[p].val = TRUE
    /\ C14_Writes(p) # {}

C14_FlushBeforeSuccess ==
    \A p \in Clients :
        C14_Success(p) =>
            \E m \in 1..Len(calls[p]) :
                /\ calls[p][m].rpc = "flush" /\ calls[p][m].ok
                /\ \A n \in C14_Writes(p) : n < m

\* An update has returned True after its delete, its insert and its flush.
C14_Witness ==
    \E p \in Clients :
        /\ C14_Success(p) /\ op[p].name = "update"
        /\ Cardinality(C14_Writes(p)) = 2
        /\ calls[p][Len(calls[p])].rpc = "flush"

(***************************************************************************)
(* C15.  A delete whose condition gives no filter (no id, or an empty list *)
(* of ids, or an id of another type, and no string kb_id) changes no       *)
(* collection at any of its steps, issues no delete request, and returns 0 *)
(* when the engine answers its requests.                                   *)
(***************************************************************************)
C15_NoFilter(c) ==
    /\ \/ "id" \notin DOMAIN c
       \/ c["id"].t = "list" /\ c["id"].l = <<>>
       \/ c["id"].t \notin {"str", "list"}
    /\ ~IsStr(c, "kb_id")

C15_EmptyFilterDeletesNothing ==
    [][\A p \in Clients :
          (Running(p, "delete") /\ C15_NoFilter(op[p].cond)) =>
              /\ Store' = Store
              /\ \A n \in 1..Len(calls'[p]) : calls'[p][n].rpc # "delete"
              /\ (pc'[p] = "done" /\ \A n \in 1..Len(calls'[p]) : calls'[p][n].ok) =>
                    ret'[p].kind = "value" /\ ret'[p].val = 0]_vars

\* A delete with the empty condition has returned 0 on a loaded collection
\* that holds rows.
C15_Witness ==
    \E p \in Clients :
        /\ Finished(p, "delete") /\ op[p].cond = EmptyDict
        /\ Issued(p, {"load"}) /\ Answered(p)
        /\ ret[p].kind = "value" /\ ret[p].val = 0
        /\ BagCardinality(colls[TargetName(p)].rows) > 0

(***************************************************************************)
(* C16.  A delete removes only rows that satisfy every entry of its        *)
(* condition; when it returns and the engine answered its requests, no row *)
(* of the target collection satisfies the condition, and the count it      *)
(* returns is the number of rows removed.                                  *)
(***************************************************************************)
\* The row satisfies every entry of the condition: equality for a string,
\* membership for a list.
C16_Satisfies(row, c) ==
    \A k \in DOMAIN c :
        /\ k \in DOMAIN row
        /\ IF c[k].t = "list" THEN \E n \in 1..Len(c[k].l) : row[k] = c[k].l[n]
           ELSE c[k].t = "str" /\ row[k] = c[k].s

C16_Exact(p) ==
    LET before == colls[TargetName(p)].rows
        after == colls'[TargetName(p)].rows
    IN /\ \A r \in DOMAIN before :
            CopiesIn(r, after) < CopiesIn(r, before) => C16_Satisfies(r, op[p].cond)
       /\ pc[p] = "de_delete" =>
            loc'[p].delCount = BagCardinality(before) - BagCardinality(after)
       /\ (pc'[p] = "done" /\ ret'[p].kind = "value"
              /\ \A n \in 1..Len(calls'[p]) : calls'[p][n].ok) =>
            /\ \A r \in DOMAIN after : ~C16_Satisfies(r, op[p].cond)
            /\ ret'[p].val = loc[p].delCount

C16_DeleteRemovesExactlyTheMatches ==
    [][\A p \in Clients : Running(p, "delete") => C16_Exact(p)]_vars

\* The same for the conditions that are not empty and have no other key than
\* id and kb_id.
C16_DeleteRemovesExactlyTheMatchesOnIdAndKb ==
    [][\A p \in Clients :
          (/\ Running(p, "delete")
           /\ op[p].cond # EmptyDict
           /\ DOMAIN op[p].cond \subseteq {"id", "kb_id"}) =>
              C16_Exact(p)]_vars

\* The first half alone: the rows a delete removes satisfy its condition.
C16_RemovesOnlyMatches ==
    [][\A p \in Clients :
          Running(p, "delete") =>
              \A r \in DOMAIN colls[TargetName(p)].rows :
                  CopiesIn(r, colls'[TargetName(p)].rows)
                        < CopiesIn(r, colls[TargetName(p)].rows) =>
                      C16_Satisfies(r, op[p].cond)]_vars

(***************************************************************************)
(* What the claims on get speak of.                                        *)
(***************************************************************************)
\* The knowledge bases of a get, in the order given, and their collections.
KbsOf(p) == IF op[p].kbIds.t = "list" THEN op[p].kbIds.l ELSE <<op[p].kbIds.s>>
KbColl(p, i) == colls[CollectionName(op[p].indexName, KbsOf(p)[i])]

\* The collection of the i-th knowledge base exists and holds the id.
KbHolds(p, i) == KbColl(p, i).exists /\ HasId(KbColl(p, i).rows, op[p].chunkId)

\* Some request of the get on the collection of the i-th knowledge base failed.
KbFailed(p, i) ==
    \E n \in 1..Len(calls[p]) :
        /\ ~calls[p][n].ok
        /\ calls[p][n].coll = CollectionName(op[p].indexName, KbsOf(p)[i])

\* The get was called right after an operation of this name returned a value
\* on the same index, all requests of that operation having been answered.
After(p, name) ==
    /\ Finished(p, "get")
    /\ loc[p].prior.name = name
    /\ loc[p].prior.kind = "value" /\ loc[p].prior.answered
    /\ loc[p].prior.indexName = op[p].indexName

(***************************************************************************)
(* C17.  A get called right after a successful insert, with the id of a    *)
(* document of the batch and knowledge bases that include the insert's,    *)
(* and whose requests are answered, returns a row that has the value of    *)
(* every scalar field the document supplied.                               *)
(***************************************************************************)
C17_RoundTripCase(p, n) ==
    /\ After(p, "insert") /\ Answered(p)
    /\ n \in 1..Len(loc[p].prior.docs)
    /\ loc[p].prior.docs[n]["id"] = op[p].chunkId
    /\ \E i \in 1..Len(KbsOf(p)) : KbsOf(p)[i] = loc[p].prior.kbId

C17_Returned(p, n) ==
    /\ ret[p].val.found
    /\ \A k \in DOMAIN loc[p].prior.docs[n] \cap ScalarFields :
          /\ k \in DOMAIN ret[p].val.doc
          /\ ret[p].val.doc[k] = loc[p].prior.docs[n][k]

C17_GetReturnsWhatInsertWrote ==
    \A p \in Clients, n \in 1..MaxRows :
        C17_RoundTripCase(p, n) => C17_Returned(p, n)

\* The same with the insert's knowledge base alone.
C17_GetReturnsWhatInsertWroteInOneKb ==
    \A p \in Clients, n \in 1..MaxRows :
        (C17_RoundTripCase(p, n) /\ KbsOf(p) = <<loc[p].prior.kbId>>) =>
            C17_Returned(p, n)

\* The same when the collections of the knowledge bases hold one row with the
\* id between them.
C17_GetReturnsWhatInsertWroteOfAUniqueId ==
    \A p \in Clients, n \in 1..MaxRows :
        (/\ C17_RoundTripCase(p, n)
         /\ \E i \in 1..Len(KbsOf(p)) :
              /\ BagCardinality(Matching(KbColl(p, i).rows, GetExpr(op[p].chunkId))) = 1
              /\ \A j \in 1..Len(KbsOf(p)) \ {i} : ~KbHolds(p, j)) =>
            C17_Returned(p, n)

(***************************************************************************)
(* C18.  A delete by one id on a collection that holds a row with the id   *)
(* reports at least one row deleted and returns that count; and a get of   *)
(* the id over that knowledge base, called right after the delete returned *)
(* (its requests answered), returns None.                                  *)
(***************************************************************************)
C18_DeleteById(c) == DOMAIN c = {"id"} /\ c["id"].t = "str"

C18_DeleteThenGetReturnsNone ==
    [][\A p \in Clients :
          /\ (/\ pc[p] = "de_delete" /\ pc'[p] = "de_flush"
              /\ C18_DeleteById(op[p].cond)
              /\ HasId(colls[TargetName(p)].rows, op[p].cond["id"].s)) =>
                 loc'[p].delCount >= 1
          /\ (pc[p] = "de_flush" /\ ret'[p].kind = "value") =>
                 ret'[p].val = loc[p].delCount
          /\ (/\ After(p, "delete")'
              /\ C18_DeleteById(loc'[p].prior.cond)
              /\ loc'[p].prior.cond["id"].s = op'[p].chunkId
              /\ KbsOf(p)' = <<loc'[p].prior.kbId>>) =>
                 ret'[p].val = GetNone]_vars

\* The delete returned 1, another row is left in the collection, and the get
\* of the id has queried the collection and returned None.
C18_Witness ==
    \E p \in Clients :
        /\ After(p, "delete") /\ loc[p].prior.val = 1
        /\ C18_DeleteById(loc[p].prior.cond)
        /\ loc[p].prior.cond["id"].s = op[p].chunkId
        /\ KbsOf(p) = <<loc[p].prior.kbId>>
        /\ Issued(p, {"query"}) /\ Answered(p)
        /\ BagCardinality(KbColl(p, 1).rows) > 0
        /\ ret[p].val = GetNone

(***************************************************************************)
(* C19.  A get whose requests are all answered returns the row (its schema *)
(* fields) of the first knowledge base, in the order given, whose          *)
(* collection holds the id, having issued no request on the collection of  *)
(* a later knowledge base; it returns None when no collection holds the id.*)
(***************************************************************************)
C19_FirstHit(p) ==
    IF \E i \in 1..Len(KbsOf(p)) : KbHolds(p, i)
    THEN LET f == CHOOSE i \in 1..Len(KbsOf(p)) :
                      KbHolds(p, i) /\ \A j \in 1..(i - 1) : ~KbHolds(p, j)
         IN /\ ret[p].val.found
            /\ \E r \in DOMAIN KbColl(p, f).rows :
                  /\ r["id"] = op[p].chunkId
                  /\ ret[p].val.doc = Project(r, SchemaFields(KbColl(p, f).dim))
            /\ \A n \in 1..Len(calls[p]), j \in (f + 1)..Len(KbsOf(p)) :
                  calls[p][n].coll # CollectionName(op[p].indexName, KbsOf(p)[j])
    ELSE ret[p].val = GetNone

C19_GetReturnsTheFirstHit ==
    \A p \in Clients : (Finished(p, "get") /\ Answered(p)) => C19_FirstHit(p)

\* Both collections hold the id, and the get over (k-2, k) returned the row
\* of k-2.
C19_Witness ==
    \E p \in Clients :
        /\ Finished(p, "get") /\ Answered(p)
        /\ KbsOf(p) = <<KB2, KB1>>
        /\ KbHolds(p, 1) /\ KbHolds(p, 2)
        /\ ret[p].val.found /\ ret[p].val.doc["kb_id"] = KB2

(***************************************************************************)
(* C20.  A get never ends with an exception; and it returns None only when *)
(* for every knowledge base the collection is absent or lacks the id, or a *)
(* request on it failed: an absent collection and a failed request make    *)
(* get go on to the next knowledge base.                                   *)
(***************************************************************************)
C20_GetGoesOnAfterFailure ==
    \A p \in Clients :
        Finished(p, "get") =>
            /\ ret[p].kind = "value"
            /\ ret[p].val = GetNone =>
                  \A i \in 1..Len(KbsOf(p)) : ~KbHolds(p, i) \/ KbFailed(p, i)

\* A request on the first collection failed and the row of the second was
\* returned.
C20_Witness ==
    \E p \in Clients :
        /\ Finished(p, "get")
        /\ KbsOf(p) = <<KB2, KB1>>
        /\ KbHolds(p, 1) /\ KbFailed(p, 1)
        /\ ret[p].val.found /\ ret[p].val.doc["kb_id"] = KB1

\* The first collection is absent, every request was answered, and the row
\* of the second was returned.
C20_AbsentWitness ==
    \E p \in Clients :
        /\ Finished(p, "get") /\ Answered(p)
        /\ KbsOf(p) = <<KB2, KB1>>
        /\ ~KbColl(p, 1).exists
        /\ ret[p].val.found /\ ret[p].val.doc["kb_id"] = KB1

(***************************************************************************)
(* What the claims on search speak of.                                     *)
(***************************************************************************)
\* The index names a search was given.
IndexNamesOf(p) ==
    IF op[p].indexNames.t = "list" THEN op[p].indexNames.l ELSE <<op[p].indexNames.s>>

\* The rows of a collection that pass the filter of the search.
PassingIn(p, name) == Passing(colls[name].rows, SearchExpr(op[p].condition))

\* The number of rows of a bag whose vector is nearer to q than d, or as near.
Nearer(rows, q, d) ==
    BagCardinality([r \in {r \in DOMAIN rows : Distance(q, r["q_8_vec"]) < d} |-> rows[r]])
AsNear(rows, q, d) ==
    BagCardinality([r \in {r \in DOMAIN rows : Distance(q, r["q_8_vec"]) <= d} |-> rows[r]])

Min(a, b) == IF a < b THEN a ELSE b
Max(a, b) == IF a < b THEN b ELSE a

(***************************************************************************)
(* C21.  A search whose requests are answered asks the engine about the    *)
(* collection of every (index name, knowledge base) pair of its arguments, *)
(* so that a matching row stored under any requested index name can be     *)
(* among the documents returned.                                           *)
(***************************************************************************)
C21_SearchQueriesEveryIndexName ==
    \A p \in Clients :
        (Finished(p, "search") /\ Answered(p)) =>
            \A i \in 1..Len(IndexNamesOf(p)), k \in 1..Len(op[p].kbIds) :
                \E n \in 1..Len(calls[p]) :
                    calls[p][n].coll = CollectionName(IndexNamesOf(p)[i], op[p].kbIds[k])

\* The same, seen in the result: with the second index name requested, one
\* vector query, offset 0 and a row of the second index's collection that
\* passes the filter, a document of that collection is returned.
C21_RowOfSecondIndexNameAppears ==
    \A p \in Clients :
        (/\ Finished(p, "search") /\ Answered(p)
         /\ IndexNamesOf(p) = <<IDX, JDX>> /\ op[p].kbIds = <<KB1>>
         /\ op[p].matchExprs = <<MatchDenseExpr(V1)>> /\ op[p].offset = 0
         /\ PassingIn(p, CollectionName(JDX, KB1)) # EmptyBag) =>
            \E n \in 1..Len(ret[p].val) : ret[p].val[n]["id"] = <<"w">>

\* What the code does: every request of a search is on a collection of the
\* first index name.
C21_SearchQueriesOnlyTheFirstIndexName ==
    \A p \in Clients :
        op[p].name = "search" =>
            \A n \in 1..Len(calls[p]) :
                \E k \in 1..Len(op[p].kbIds) :
                    calls[p][n].coll = CollectionName(IndexNamesOf(p)[1], op[p].kbIds[k])

(***************************************************************************)
(* C22.  A search of one collection with one vector query, whose requests  *)
(* are answered, asks the engine for offset + limit hits and returns the   *)
(* rows ranked offset+1 .. min(n, offset+limit) among the n rows that pass *)
(* the filter: min(limit, max(0, n - offset)) documents, each with the     *)
(* distance of its rank; the same search repeated returns the same         *)
(* documents.                                                              *)
(***************************************************************************)
C22_Case(p) ==
    /\ Finished(p, "search") /\ Answered(p)
    /\ Len(op[p].kbIds) = 1
    /\ colls[CollectionName(CurrentIndexName(op[p].indexNames), op[p].kbIds[1])].exists
    /\ Len(op[p].matchExprs) = 1 /\ op[p].matchExprs[1].kind = "dense"

C22_PastTheEnd ==
    \E p \in Clients :
        /\ C22_Case(p)
        /\ BagCardinality(PassingIn(p, CollectionName(IDX, op[p].kbIds[1]))) = 1
        /\ op[p].offset = 2 /\ ret[p].val = <<>>

(***************************************************************************)
(* C23.  A search none of whose (index name, knowledge base) pairs has a   *)
(* collection returns the empty list: it does not raise, and it creates    *)
(* no collection.                                                          *)
(***************************************************************************)
C23_NoCollection(p) ==
    /\ op[p].name = "search" /\ op[p].kbIds # <<>>
    /\ \A i \in 1..Len(IndexNamesOf(p)), k \in 1..Len(op[p].kbIds) :
          ~colls[CollectionName(IndexNamesOf(p)[i], op[p].kbIds[k])].exists

C23_SearchOfMissingCollectionsIsEmpty ==
    \A p \in Clients :
        C23_NoCollection(p) =>
            /\ ~Issued(p, {"create_collection", "search"})
            /\ pc[p] = "done" => (ret[p].kind = "value" /\ ret[p].val = <<>>)

C23_Witness ==
    \E p \in Clients :
        /\ C23_NoCollection(p) /\ pc[p] = "done"
        /\ ret[p].kind = "value" /\ ret[p].val = <<>>
        /\ "search_skip" \in log[p]
        /\ Issued(p, {"has_collection"})

(***************************************************************************)
(* C24.  A search whose requests are answered returns, in the order of     *)
(* knowledgebaseIds, the page of each collection that exists (for each     *)
(* vector query, in the order of the queries): a page has at most `limit`  *)
(* documents, and the list is neither sorted again nor cut to `limit`.     *)
(***************************************************************************)
C24_Page(p, kb, m) ==
    LET name == CollectionName(CurrentIndexName(op[p].indexNames), kb)
        all == Ranked(PassingIn(p, name), "q_8_vec", m.data)
        last == Min(Len(all), op[p].offset + op[p].limit)
    IN IF ~colls[name].exists \/ m.kind # "dense" THEN <<>>
       ELSE [n \in 1..Max(0, last - op[p].offset) |->
               [id |-> all[op[p].offset + n]["id"],
                score |-> Distance(m.data, all[op[p].offset + n]["q_8_vec"])]]

C24_Pages(p) ==
    Join([k \in 1..Len(op[p].kbIds) |->
            Join([m \in 1..Len(op[p].matchExprs) |->
                    C24_Page(p, op[p].kbIds[k], op[p].matchExprs[m])], <<>>)], <<>>)

C24_SearchConcatenatesThePages ==
    \A p \in Clients :
        (Finished(p, "search") /\ Answered(p)) =>
            /\ ret[p].kind = "value"
            /\ [n \in 1..Len(ret[p].val) |->
                   [id |-> ret[p].val[n]["id"], score |-> ret[p].val[n]["score"]]]
                 = C24_Pages(p)
            /\ \A k \in 1..Len(op[p].kbIds), m \in 1..Len(op[p].matchExprs) :
                   Len(C24_Page(p, op[p].kbIds[k], op[p].matchExprs[m])) <= op[p].limit

\* Two collections, one vector query, limit 1: two documents, the farther first.
C24_Witness ==
    \E p \in Clients :
        /\ Finished(p, "search") /\ Answered(p)
        /\ op[p].kbIds = <<KB2, KB1>> /\ op[p].limit = 1
        /\ Len(op[p].matchExprs) = 1
        /\ Len(ret[p].val) = 2
        /\ ret[p].val[1]["score"] > ret[p].val[2]["score"]

(***************************************************************************)
(* C25.  The filter search builds from a condition is one clause per       *)
(* entry, in the order of the entries, joined by "and": field in [...]     *)
(* over the quoted items for a list, field == '<value>' for a string,      *)
(* field == <value> without quotes for a number or a boolean.  The engine  *)
(* reads it so when no value holds a quote.  The empty condition gives the *)
(* empty expression, which selects every row.                              *)
(***************************************************************************)
C25_ClauseText(e) ==
    IF e.v.t = "list"
    THEN <<e.k, "in", "[">>
            \o Join([n \in 1..Len(e.v.l) |-> <<"'">> \o e.v.l[n] \o <<"'">>], <<",">>)
            \o <<"]">>
    ELSE IF e.v.t = "str" THEN <<e.k, "==", "'">> \o e.v.s \o <<"'">>
    ELSE <<e.k, "==">> \o e.v.s

C25_QuoteFree(c) ==
    \A n \in 1..Len(c) :
        /\ \A i \in 1..Len(c[n].v.s) : c[n].v.s[i] # "'"
        /\ \A m \in 1..Len(c[n].v.l) :
              \A i \in 1..Len(c[n].v.l[m]) : c[n].v.l[m][i] # "'"

\* What the engine reads is the clause of the entry.
C25_ReadAs(atom, e) ==
    /\ atom.field = e.k
    /\ IF e.v.t = "list"
       THEN /\ atom.op = "in" /\ Len(atom.lits) = Len(e.v.l)
            /\ \A m \in 1..Len(e.v.l) :
                  atom.lits[m].quoted /\ atom.lits[m].text = e.v.l[m]
       ELSE /\ atom.op = "==" /\ Len(atom.lits) = 1
            /\ atom.lits[1].quoted = (e.v.t = "str")
            /\ atom.lits[1].text = e.v.s

C25_FilterIsOneClausePerEntry ==
    \A p \in Clients :
        Finished(p, "search") =>
            LET c == op[p].condition
                read == ParseExpr(loc[p].filter)
            IN /\ loc[p].filter = Join([n \in 1..Len(c) |-> C25_ClauseText(c[n])], <<"and">>)
               /\ C25_QuoteFree(c) =>
                     /\ read.ok /\ Len(read.items) = Len(c)
                     /\ \A n \in 1..Len(c) :
                           /\ read.items[n].conn = "and"
                           /\ C25_ReadAs(read.items[n].atom, c[n])
               /\ c = <<>> =>
                     /\ loc[p].filter = <<>>
                     /\ \A r \in FilterRows : Selects(r, loc[p].filter)

\* Two entries, a number and a list, in the order given.
C25_Witness ==
    \E p \in Clients :
        /\ Finished(p, "search")
        /\ op[p].condition = <<Entry("page_num_int", PyInt), Entry("id", PyList(<<X, Y>>))>>
        /\ loc[p].filter = <<"page_num_int", "==", "5", "and",
                             "id", "in", "[", "'", "x", "'", ",", "'", "y", "'", "]">>

\* The empty condition.
C25_EmptyWitness ==
    \E p \in Clients :
        Finished(p, "search") /\ op[p].condition = <<>> /\ loc[p].filter = <<>>

(***************************************************************************)
(* C26.  An operation that builds a filter from a string of the caller     *)
(* (the id and kb_id of delete and update, the id of get) sends the engine *)
(* no request with a filter when the string holds a single quote.          *)
(***************************************************************************)
HoldsQuote(v) == \E i \in 1..Len(v) : v[i] = "'"

\* A string the operation of the client puts into its filter holds a quote.
C26_QuoteInFilter(p) ==
    \/ /\ op[p].name \in {"delete", "update"}
       /\ \E k \in DOMAIN op[p].cond \cap {"id", "kb_id"} :
             \/ HoldsQuote(op[p].cond[k].s)
             \/ \E m \in 1..Len(op[p].cond[k].l) : HoldsQuote(op[p].cond[k].l[m])
    \/ op[p].name = "get" /\ HoldsQuote(op[p].chunkId)

C26_QuotedValueIsNeverSent ==
    \A p \in Clients : C26_QuoteInFilter(p) => ~Issued(p, {"query", "delete"})

\* What the embedded quote does: a delete by one id that no row has removes
\* rows of other ids.
C26_DeleteByOneIdRemovesOnlyThatId ==
    [][\A p \in Clients :
          (Running(p, "delete") /\ IsStr(op[p].cond, "id")) =>
              \A r \in DOMAIN Store[TargetName(p)].rows :
                  r["id"] # op[p].cond["id"].s =>
                      /\ r \in DOMAIN Store'[TargetName(p)].rows
                      /\ Store'[TargetName(p)].rows[r] = Store[TargetName(p)].rows[r]]_vars

\* And a get by an id returns a row of another id.
C26_GetReturnsARowOfTheId ==
    \A p \in Clients :
        (Finished(p, "get") /\ ret[p].kind = "value" /\ ret[p].val.found) =>
            ret[p].val.doc["id"] = op[p].chunkId

\* search: a condition with a quote in a string is not sent either.
C26_SearchNeverSendsAQuotedValue ==
    \A p \in Clients :
        (op[p].name = "search" /\ ~C25_QuoteFree(op[p].condition)) =>
            ~Issued(p, {"search"})

(***************************************************************************)
(* C27.  The collection name of an (index name, knowledge base id) pair is *)
(* a function of the pair, and two different pairs never get the same      *)
(* name: two operations called with different pairs never send a request   *)
(* on the same collection.                                                 *)
(***************************************************************************)
PairOf(p) == <<op[p].indexName, op[p].kbId>>

C27_NamesAreInjective ==
    \A p, q \in Clients :
        (op[p].name # "none" /\ op[q].name # "none" /\ PairOf(p) # PairOf(q)) =>
            \A n \in 1..Len(calls[p]), m \in 1..Len(calls[q]) :
                calls[p][n].coll # calls[q][m].coll

\* The half that holds: the same pair gives the same name in every request.
C27_NamesAreDeterministic ==
    \A p, q \in Clients :
        (op[p].name # "none" /\ op[q].name # "none" /\ PairOf(p) = PairOf(q)) =>
            \A n \in 1..Len(calls[p]), m \in 1..Len(calls[q]) :
                calls[p][n].coll = calls[q][m].coll

(***************************************************************************)
(* C28.  No operation sends the engine a request on a collection whose     *)
(* name is longer than the engine takes: a pair that composes to such a    *)
(* name is refused before any request.                                     *)
(***************************************************************************)
C28_OverlongNameIsNeverSent ==
    \A p \in Clients :
        \A n \in 1..Len(calls[p]) : Len(calls[p][n].coll) <= NameLimit

\* The half that holds: the name sent is the composed name, never a
\* shortened one.
C28_NoOperationTruncates ==
    \A p \in Clients :
        \A n \in 1..Len(calls[p]) :
            calls[p][n].coll = Replace(op[p].indexName \o <<"_">> \o op[p].kbId)

\* What the code does with such a pair: createIdx asks the engine to create
\* the collection, and raises when the engine refuses.
C28_CreateIdxOfOverlongNameRaises ==
    \A p \in Clients :
        (Finished(p, "createIdx") /\ Len(TargetName(p)) > NameLimit) =>
            /\ ret[p].kind = "raise"
            /\ Issued(p, {"create_collection"})

(***************************************************************************)
(* C29.  The construction of a connector tries to connect again when an    *)
(* attempt fails: it ends with a connection error only after more than     *)
(* one attempt, and a connector is there when a later attempt is accepted. *)
(***************************************************************************)
Attempts(p) == Cardinality({n \in 1..Len(calls[p]) : calls[p][n].rpc = "connect"})

C29_ConnectIsRetried ==
    \A p \in Clients :
        (Finished(p, "init") /\ "connect_failed" \in log[p]) => Attempts(p) > 1

\* What the code does: one attempt, and its failure ends the construction.
C29_OneAttemptAndItsFailureIsFinal ==
    \A p \in Clients :
        op[p].name = "init" =>
            /\ Attempts(p) <= 1
            /\ (Attempts(p) = 1 /\ ~calls[p][1].ok) =>
                  (pc[p] = "done" /\ ret[p].kind = "raise" /\ Len(calls[p]) = 1)

(***************************************************************************)
(* C30.  The construction of a connector succeeds whenever the engine      *)
(* answers its requests, the answer "the database exists already" to       *)
(* create_database included: of two constructions that both found the      *)
(* database absent, both succeed, and the database exists once.            *)
(***************************************************************************)
\* Every request was answered; "exists already" is an answer.
C30_Answered(p) ==
    \A n \in 1..Len(calls[p]) :
        ~calls[p][n].ok =>
            (calls[p][n].rpc = "create_database" /\ "already_exists" \in log[p])

C30_AlreadyExistsIsSuccess ==
    \A p \in Clients :
        (Finished(p, "init") /\ C30_Answered(p)) =>
            /\ ret[p].kind = "value"
            /\ DbName(op[p].tenant) \in dbs

\* What the code does: the construction that creates second raises.
C30_SecondCreatorRaises ==
    \A p \in Clients :
        (Finished(p, "init") /\ "already_exists" \in log[p]) =>
            /\ ret[p].kind = "raise"
            /\ DbName(op[p].tenant) \in dbs

\* A construction that finds the database there does not create it again.
C30_ExistingDatabaseIsUsed ==
    \A p \in Clients :
        (Finished(p, "init") /\ Answered(p)) =>
            /\ ret[p].kind = "value"
            /\ DbName(op[p].tenant) \in dbs

(***************************************************************************)
(* C31.  A deleteIdx whose requests are answered returns normally and      *)
(* leaves no collection of its (index name, knowledge base id) pair: an    *)
(* absent one is left alone without a drop request, an existing one is     *)
(* dropped, and its rows are gone for indexExist, get and search.          *)
(***************************************************************************)
C31_DeleteIdxLeavesNoCollection ==
    \A p \in Clients :
        (Finished(p, "deleteIdx") /\ Answered(p)) =>
            /\ ret[p].kind = "value"
            /\ ~colls[TargetName(p)].exists

\* The same for a knowledge base id that is not empty.
C31_DeleteIdxLeavesNoCollectionOfAKb ==
    \A p \in Clients :
        (Finished(p, "deleteIdx") /\ Answered(p) /\ Truthy(op[p].kbId)) =>
            /\ ret[p].kind = "value"
            /\ ~colls[TargetName(p)].exists
            /\ ~colls[CheckedName(p)].exists

\* No drop request is sent for a collection indexExist does not find, and
\* such a deleteIdx does not raise.
C31_AbsentCollectionIsLeftAlone ==
    \A p \in Clients :
        (op[p].name = "deleteIdx" /\ ~Issued(p, {"drop_collection"})) =>
            ret[p].kind # "raise"

\* A get right after an answered deleteIdx of the only knowledge base it
\* looks in returns None.
C31_GetAfterDeleteIdxReturnsNone ==
    \A p \in Clients :
        (/\ After(p, "deleteIdx")
         /\ KbsOf(p) = <<loc[p].prior.kbId>>) =>
            (ret[p].kind = "value" /\ ~ret[p].val.found)

C31_GetAfterDeleteIdxReached ==
    \E p \in Clients :
        /\ After(p, "deleteIdx") /\ KbsOf(p) = <<loc[p].prior.kbId>>
        /\ Issued(p, {"has_collection"})

(***************************************************************************)
(* C32.  Every collection that exists has exactly one vector field, named  *)
(* q_<width>_vec and declared with that width, the width createIdx was     *)
(* given, and exactly one primary-key field, "id".                         *)
(***************************************************************************)
VectorFieldsOf(schema) == {n \in 1..Len(schema) : schema[n].dtype = "FLOAT_VECTOR"}
PrimaryFieldsOf(schema) == {n \in 1..Len(schema) : schema[n].is_primary}

C32_WellFormed(schema, width) ==
    /\ Cardinality(VectorFieldsOf(schema)) = 1
    /\ \A n \in VectorFieldsOf(schema) :
          schema[n].name = VectorFieldName(width) /\ schema[n].dim = width
    /\ Cardinality(PrimaryFieldsOf(schema)) = 1
    /\ \A n \in PrimaryFieldsOf(schema) : schema[n].name = "id"
    /\ \A n, m \in 1..Len(schema) : schema[n].name = schema[m].name => n = m

C32_SchemaHasOneVectorAndOneKey ==
    /\ \A n \in Names : colls[n].exists => C32_WellFormed(colls[n].schema, colls[n].dim)
    /\ \A p \in Clients :
          (Finished(p, "createIdx") /\ ret[p].kind = "value"
              /\ "collection_created" \in log[p]) =>
                C32_WellFormed(colls[TargetName(p)].schema, op[p].vectorSize)

\* A createIdx of width 16 has made its collection.
C32_Witness ==
    \E p \in Clients :
        /\ Finished(p, "createIdx") /\ ret[p].kind = "value"
        /\ "collection_created" \in log[p] /\ op[p].vectorSize = 16
        /\ colls[TargetName(p)].exists
        /\ \E n \in 1..Len(colls[TargetName(p)].schema) :
              colls[TargetName(p)].schema[n].name = "q_16_vec"

(***************************************************************************)
(* C33: getFields.                                                         *)
(***************************************************************************)
\* The documents of a result list that give an entry: they have an "id" and
\* at least one of the fields.
Extracting(res, fields) ==
    {n \in 1..Len(res) : "id" \in DOMAIN res[n] /\ DOMAIN res[n] \cap Elems(fields) # {}}

\* C33 as stated: getFields returns, for every document of the result list
\* that has an "id", an entry under that id.
C33_EveryDocWithIdHasAnEntry ==
    \A p \in Clients :
        Finished(p, "getFields") /\ ret[p].kind = "value" /\ op[p].fields # <<>> =>
            \A n \in 1..Len(op[p].res) :
                "id" \in DOMAIN op[p].res[n] => op[p].res[n]["id"] \in DOMAIN ret[p].val

\* C33: getFields returns without raising; with an empty field list or an
\* empty result list the mapping is empty; otherwise it has an entry for the
\* ids of exactly the documents that have an "id" and at least one of the
\* requested fields, and the entry of an id holds exactly the requested
\* fields that the last such document of that id contains.
C33_GetFieldsProjects ==
    \A p \in Clients :
        Finished(p, "getFields") =>
            LET res == op[p].res
                fields == op[p].fields
                from == Extracting(res, fields)
            IN /\ ret[p].kind = "value"
               /\ calls[p] = <<>>
               /\ (fields = <<>> \/ res = <<>>) => ret[p].val = EmptyDict
               /\ fields # <<>> =>
                     /\ DOMAIN ret[p].val = {res[n]["id"] : n \in from}
                     /\ \A n \in from :
                           (\A m \in from : m > n => res[m]["id"] # res[n]["id"]) =>
                               LET entry == ret[p].val[res[n]["id"]]
                               IN /\ DOMAIN entry = DOMAIN res[n] \cap Elems(fields)
                                  /\ \A f \in DOMAIN entry : entry[f] = res[n][f]

\* A call with a document that has an id and none of the requested fields,
\* a document without an id, and a non-empty answer.
C33_Witness ==
    \E p \in Clients :
        /\ Finished(p, "getFields") /\ op[p].fields = <<"content_ltks">>
        /\ op[p].res = <<[id |-> X, content_ltks |-> A], [id |-> Y]>>
        /\ ret[p].val = DictSet(EmptyDict, X, [content_ltks |-> A])

\* Two documents of one id: the later one gives the entry.
C33_WitnessSameId ==
    \E p \in Clients :
        /\ Finished(p, "getFields") /\ op[p].fields = <<"content_ltks", "kb_id">>
        /\ op[p].res = <<[id |-> X, content_ltks |-> A],
                         [id |-> X, content_ltks |-> B, kb_id |-> KB1]>>
        /\ ret[p].val = DictSet(EmptyDict, X, [content_ltks |-> B, kb_id |-> KB1])

(***************************************************************************)
(* C34: getHighlight, getAggregation and sql.                              *)
(***************************************************************************)
Unsupported == {"getHighlight", "getAggregation", "sql"}

\* C34: a call of getHighlight returns the empty mapping, a call of
\* getAggregation the empty list, and a call of sql raises the error of an
\* unsupported operation; the step of such a call sends the engine no
\* request and leaves the collections and the databases as they were.
C34_UnsupportedOperationsAreInert ==
    [][\A p \in Clients :
          op'[p].name \in Unsupported /\ pc[p] = "idle" =>
              /\ pc'[p] = "done"
              /\ calls'[p] = <<>>
              /\ colls' = colls /\ dbs' = dbs
              /\ op'[p].name = "getHighlight" =>
                    ret'[p].kind = "value" /\ ret'[p].val = EmptyDict
              /\ op'[p].name = "getAggregation" =>
                    ret'[p].kind = "value" /\ ret'[p].val = <<>>
              /\ op'[p].name = "sql" =>
                    ret'[p].kind = "raise" /\ ret'[p].val = "NotImplementedError"]_vars

\* getHighlight has answered for a result list with a document, on a store
\* that holds a collection with rows.
C34_Witness ==
    \E p \in Clients :
        /\ Finished(p, "getHighlight") /\ ret[p].val = EmptyDict
        /\ Len(op[p].res) = 1 /\ "id" \in DOMAIN op[p].res[1]
        /\ colls[CollectionName(IDX, KB1)].exists

C34_WitnessSql ==
    \E p \in Clients :
        /\ Finished(p, "sql") /\ ret[p].kind = "raise"
        /\ "sql_unsupported" \in log[p]
        /\ colls[CollectionName(IDX, KB1)].exists

(***************************************************************************)
(* C35: what a returned createIdx leaves.                                  *)
(***************************************************************************)
\* C35: whenever createIdx has returned without error, for a knowledge base
\* id that is a non-empty string, the collection exists, has its index and
\* is loaded.
C35_ReturnedCreateIdxLeavesAReadyCollection ==
    \A p \in Clients :
        /\ Finished(p, "createIdx") /\ ret[p].kind = "value"
        /\ CheckedName(p) = TargetName(p)
        => LET c == colls[TargetName(p)] IN c.exists /\ c.indexed /\ c.loaded

\* The early return of createIdx on a collection that an earlier call
\* created and did not index.
C35_EarlyReturnOnHalfCreated ==
    \E p \in Clients :
        /\ Finished(p, "createIdx") /\ ret[p].kind = "value"
        /\ "create_skipped" \in log[p]
        /\ CheckedName(p) = TargetName(p)
        /\ colls[TargetName(p)].exists /\ ~colls[TargetName(p)].indexed

(***************************************************************************)
(* C36: the schema of a collection is fixed at its creation.               *)
(***************************************************************************)
\* C36: in every step that a collection exists before and after, its fields
\* and its embedding width stay what they were.
C36_SchemaIsFixedAtCreation ==
    [][\A n \in Names :
          colls[n].exists /\ colls'[n].exists =>
              colls'[n].schema = colls[n].schema /\ colls'[n].dim = colls[n].dim]_vars

\* A createIdx with width 16 has returned on a collection created with
\* width 8, which still has the vector field of width 8.
C36_Witness ==
    \E p \in Clients :
        /\ Finished(p, "createIdx") /\ ret[p].kind = "value" /\ op[p].vectorSize = 16
        /\ colls[TargetName(p)].exists /\ colls[TargetName(p)].dim = 8
        /\ colls[TargetName(p)].schema = CreateIdxFields(8)

\* A createIdx with width 16 has reached Collection(...) on a collection of
\* width 8, after a failed existence check, and has raised.
C36_WitnessMismatch ==
    \E p \in Clients :
        /\ Finished(p, "createIdx") /\ ret[p].kind = "raise" /\ op[p].vectorSize = 16
        /\ Len(calls[p]) = 2 /\ calls[p][2].ok
        /\ colls[TargetName(p)].exists /\ colls[TargetName(p)].dim = 8

(***************************************************************************)
(* C37: one row per id.                                                    *)
(***************************************************************************)
\* The number of rows of the bag that have this id.
RowsOfId(rows, id) ==
    BagCardinality([r \in {r \in DOMAIN rows : r["id"] = id} |-> rows[r]])

\* C37: in every reachable state, every collection holds at most one row
\* with any given id.
C37_AtMostOneRowPerId ==
    \A n \in Names : \A id \in Ids : RowsOfId(colls[n].rows, id) <= 1

\* An insert has returned the empty error list and its collection holds two
\* rows with the id it wrote.
C37_InsertDuplicates ==
    \E p \in Clients :
        /\ Finished(p, "insert") /\ ret[p].kind = "value" /\ ret[p].val = <<>>
        /\ \E n \in 1..Len(op[p].docs) :
              RowsOfId(colls[TargetName(p)].rows, op[p].docs[n]["id"]) > 1

(***************************************************************************)
(* C38: the collection checked is the collection used.                     *)
(***************************************************************************)
\* The operations that take an index name and a knowledge base id.
PairOperations == {"createIdx", "deleteIdx", "insert", "update", "delete"}

\* C38: every request an operation on (indexName, knowledgebaseId) sends
\* after its existence check addresses the collection whose existence it
\* checked.
C38_RequestsAddressTheCheckedCollection ==
    \A p \in Clients :
        op[p].name \in PairOperations =>
            \A n \in 1..Len(calls[p]) : calls[p][n].coll = calls[p][1].coll

\* The same for knowledge base ids that are non-empty strings.
C38_RequestsAddressTheCheckedCollectionOfAKb ==
    \A p \in Clients :
        op[p].name \in PairOperations /\ Truthy(op[p].kbId) =>
            \A n \in 1..Len(calls[p]) : calls[p][n].coll = calls[p][1].coll

\* An insert with knowledge base id None has asked for the existence of its
\* index name, was told it exists, and has then opened another collection.
C38_InsertChecksOneOpensAnother ==
    \E p \in Clients :
        /\ op[p].name = "insert" /\ op[p].kbId = None
        /\ Len(calls[p]) >= 2
        /\ calls[p][1].rpc = "has_collection" /\ calls[p][1].ok
        /\ calls[p][1].coll = op[p].indexName /\ colls[op[p].indexName].exists
        /\ calls[p][2].coll = op[p].indexName \o <<"_", "N", "o", "n", "e">>

\* A createIdx with the empty knowledge base id has asked for the existence
\* of "i" and has created "i_".
C38_CreateIdxChecksOneCreatesAnother ==
    \E p \in Clients :
        /\ op[p].name = "createIdx" /\ op[p].kbId = <<>>
        /\ Len(calls[p]) >= 2
        /\ calls[p][1].rpc = "has_collection" /\ calls[p][1].coll = op[p].indexName
        /\ calls[p][2].rpc = "create_collection" /\ calls[p][2].ok
        /\ calls[p][2].coll = op[p].indexName \o <<"_">>
        /\ colls[op[p].indexName \o <<"_">>].exists

(***************************************************************************)
(* getChunkIds: one client pages through a collection that nobody writes.  *)
(* The batch size and the engine's result window are scaled down with      *)
(* their order kept: one batch fits the window, two batches do not         *)
(* (10000 < 16384 < 20000).                                                *)
(***************************************************************************)
\* batch_size = 10000
BatchSize == 2

\* The engine answers a query only when offset + limit is within its result
\* window (16384).
MaxWindow == BatchSize + 1

\* The most rows a collection holds here: two full batches.
MaxChunks == 2 * BatchSize

\* The n-th id of the collection, in the order of the primary key.
ChunkId(n) == <<ToString(n)>>

ChunkRows(n) == SetToBag({QuoteRow(ChunkId(k)) : k \in 1..n})

\* expr="id != ''"
AllIdsExpr == <<"id", "!=">> \o Quote(<<>>)

\* The rows of a collection that a filter text selects, in the order of the
\* primary key, starting with the n-th id.
RECURSIVE SelectedInOrder(_, _, _)
SelectedInOrder(rows, ts, n) ==
    IF n > MaxChunks + 1 THEN <<>>
    ELSE LET here == {r \in DOMAIN rows : r["id"] = ChunkId(n) /\ Selects(r, ts)}
         IN (IF here = {} THEN <<>> ELSE <<CHOOSE r \in here : TRUE>>)
                \o SelectedInOrder(rows, ts, n + 1)

\* collection.query(expr, output_fields, limit, offset): the page of the
\* selected rows after the first `offset`, at most `limit` of them.
QueryPage(rows, ts, output_fields, limit, offset) ==
    LET all == SelectedInOrder(rows, ts, 1)
        page == SubSeq(all, offset + 1, Min(offset + limit, Len(all)))
    IN [n \in 1..Len(page) |-> Project(page[n], output_fields)]

\* A faulty variant: the engine ignores the offset.
QueryPageFromStart(rows, ts, output_fields, limit, offset) ==
    QueryPage(rows, ts, output_fields, limit, 0)

PageAnswers(name, limit, offset) ==
    IF offset + limit <= MaxWindow THEN Answers(name) ELSE {FALSE}

ChunkTargets == {<<IDX, KB1>>, <<IDX, KB2>>, <<IDX, None>>, <<IDX, <<>> >>, <<FQ1, None>>}

GetChunkIdsInvoke(p) ==
    \E t \in ChunkTargets :
        Begin(p, [NoOp EXCEPT !.name = "getChunkIds", !.indexName = t[1], !.kbId = t[2]],
              "ch_exist")

\* if not self.indexExist(name, knowledgebaseId if knowledgebaseId else None): return []
GetChunkIdsExist(p) ==
    /\ pc[p] = "ch_exist"
    /\ \E ok \in NameAnswers(CheckedName(p)) :
        /\ Issue(p, "has_collection", CheckedName(p), ok)
        /\ IF IndexExistResult(ok, colls[CheckedName(p)].exists)
           THEN Goto(p, "ch_open", IndexExistLog(ok))
           ELSE Return(p, <<>>, IndexExistLog(ok) \cup {"chunk_absent"})
    /\ UNCHANGED <<colls, op, loc>>

\* collection = Collection(name=collection_name, ...)
GetChunkIdsOpen(p) ==
    /\ pc[p] = "ch_open"
    /\ \E ok \in Answers(CheckedName(p)) :
        /\ Issue(p, "open", CheckedName(p), ok)
        /\ IF ok THEN Goto(p, "ch_load", {}) ELSE Return(p, <<>>, {"chunk_failed"})
    /\ UNCHANGED <<colls, op, loc>>

\* collection.load(); all_ids = []; offset = 0
GetChunkIdsLoad(p) ==
    /\ pc[p] = "ch_load"
    /\ \E ok \in LoadAnswers(CheckedName(p)) :
        /\ Issue(p, "load", CheckedName(p), ok)
        /\ IF ok
           THEN /\ Goto(p, "ch_query", {})
                /\ colls' = Loaded(CheckedName(p))
           ELSE /\ Return(p, <<>>, {"chunk_failed"})
                /\ UNCHANGED colls
    /\ UNCHANGED <<op, loc>>

\* results = collection.query(expr="id != ''", output_fields=["id"],
\*                            limit=batch_size, offset=offset)
ChunkResults(p) ==
    QueryPage(colls[CheckedName(p)].rows, AllIdsExpr, {"id"}, BatchSize, loc[p].offset)

\* all_ids.extend([res["id"] for res in results])
Extended(all_ids, results) == all_ids \o [n \in 1..Len(results) |-> results[n]["id"]]

\* One turn of the loop `while True`: a query for the next batch; the loop
\* ends on an empty page or on a page shorter than the batch.
GetChunkIdsQuery(p) ==
    /\ pc[p] = "ch_query"
    /\ \E ok \in PageAnswers(CheckedName(p), BatchSize, loc[p].offset),
          results \in {ChunkResults(p)} :
        /\ Issue(p, "query", CheckedName(p), ok)
        /\ IF ~ok
           THEN Return(p, <<>>, {"chunk_failed"})
           ELSE IF Len(results) < BatchSize
                THEN Return(p, Extended(loc[p].all_ids, results), {})
                ELSE Goto(p, "ch_query", {})
        /\ loc' = IF ok
                  THEN [loc EXCEPT ![p].all_ids = Extended(@, results),
                                   ![p].offset = @ + Len(results)]
                  ELSE loc
    /\ UNCHANGED <<colls, op>>

\* A store whose collection i_k holds n rows.
ChunkStore(n, ready) ==
    [c \in Names |->
        IF c = CollectionName(IDX, KB1)
        THEN [exists |-> TRUE, indexed |-> TRUE, loaded |-> ready, dim |-> 8,
              schema |-> CreateIdxFields(8), rows |-> ChunkRows(n)]
        ELSE Absent]

InitChunk ==
    /\ dbs = {}
    /\ colls \in {ChunkStore(n, ready) : n \in 0..MaxChunks, ready \in BOOLEAN}
    /\ pc = [p \in Clients |-> "idle"]
    /\ op = [p \in Clients |-> NoOp]
    /\ loc = [p \in Clients |-> NoLoc]
    /\ ret = [p \in Clients |-> NoRet]
    /\ log = [p \in Clients |-> {}]
    /\ calls = [p \in Clients |-> <<>>]

ChunkStep(p) ==
    \/ GetChunkIdsInvoke(p) \/ GetChunkIdsExist(p) \/ GetChunkIdsOpen(p)
    \/ GetChunkIdsLoad(p) \/ GetChunkIdsQuery(p) \/ Forget(p)

NextChunk == ChunkStep("c1")

SpecChunk == InitChunk /\ [][NextChunk]_vars

\* The specification with the fairness of a client that runs on: a call
\* that has started takes its next step.
FairSpecChunk == SpecChunk /\ WF_vars(\E p \in Clients : pc[p] # "idle" /\ ChunkStep(p))

(***************************************************************************)
(* C39: getChunkIds.                                                       *)
(***************************************************************************)
\* The ids of the rows of a collection, each as often as rows have it.
IdsOfRows(rows) ==
    LET ids == {r["id"] : r \in DOMAIN rows}
    IN [i \in ids |-> RowsOfId(rows, i)]

\* The offset of the n-th request of a getChunkIds: its queries start with
\* the fourth request and each follows a full batch.
C39_OffsetOf(n) == (n - 4) * BatchSize

\* No request of the call failed for a fault of the connection or the
\* engine: a request that was not answered is a query beyond the window.
C39_NoFault(p) ==
    \A n \in 1..Len(calls[p]) :
        calls[p][n].ok \/ (n >= 4 /\ C39_OffsetOf(n) + BatchSize > MaxWindow)

\* C39: a getChunkIds on an existing collection, none of whose requests
\* met a fault, returns the id of every row exactly once.
C39_ReturnsEveryRowId ==
    \A p \in Clients :
        /\ Finished(p, "getChunkIds") /\ colls[CheckedName(p)].exists
        /\ C39_NoFault(p)
        => /\ ret[p].kind = "value"
           /\ SeqToBag(ret[p].val) = IdsOfRows(colls[CheckedName(p)].rows)

\* The same for a collection with fewer rows than one batch.
C39_ReturnsEveryRowIdOfLessThanABatch ==
    \A p \in Clients :
        /\ Finished(p, "getChunkIds") /\ colls[CheckedName(p)].exists
        /\ C39_NoFault(p)
        /\ BagCardinality(colls[CheckedName(p)].rows) < BatchSize
        => /\ ret[p].kind = "value"
           /\ SeqToBag(ret[p].val) = IdsOfRows(colls[CheckedName(p)].rows)

\* getChunkIds never raises, and returns the empty list when the collection
\* is absent or a request fails.
C39_NeverRaises ==
    \A p \in Clients :
        Finished(p, "getChunkIds") =>
            /\ ret[p].kind = "value"
            /\ (~colls[CheckedName(p)].exists \/ \E n \in 1..Len(calls[p]) : ~calls[p][n].ok)
                  => ret[p].val = <<>>

\* Every call of getChunkIds that has started ends.
C39_Terminates ==
    \A p \in Clients : (op[p].name = "getChunkIds" /\ pc[p] # "idle") ~> (pc[p] = "done")

\* A getChunkIds on a collection of exactly one batch of rows has had its
\* first query answered, its second refused, and has returned the empty list.
C39_FullBatchReturnsNothing ==
    \E p \in Clients :
        /\ Finished(p, "getChunkIds") /\ colls[CheckedName(p)].exists
        /\ BagCardinality(colls[CheckedName(p)].rows) = BatchSize
        /\ Len(calls[p]) = 5 /\ calls[p][4].ok /\ ~calls[p][5].ok
        /\ loc[p].all_ids = <<ChunkId(1), ChunkId(2)>>
        /\ ret[p].val = <<>>

(***************************************************************************)
(* C40: one database per tenant.                                           *)
(***************************************************************************)
\* C40: two connectors constructed for distinct tenant ids use distinct
\* databases.
C40_DistinctTenantsDistinctDatabases ==
    \A p, q \in Clients :
        /\ Finished(p, "init") /\ ret[p].kind = "value"
        /\ Finished(q, "init") /\ ret[q].kind = "value"
        /\ op[p].tenant # op[q].tenant
        => DbName(op[p].tenant) # DbName(op[q].tenant)

\* The same for tenant ids without "_".
C40_DistinctTenantsWithoutUnderscoreDistinctDatabases ==
    \A p, q \in Clients :
        /\ Finished(p, "init") /\ ret[p].kind = "value"
        /\ Finished(q, "init") /\ ret[q].kind = "value"
        /\ op[p].tenant # op[q].tenant
        /\ \A n \in 1..Len(op[p].tenant) : op[p].tenant[n] # "_"
        /\ \A n \in 1..Len(op[q].tenant) : op[q].tenant[n] # "_"
        => DbName(op[p].tenant) # DbName(op[q].tenant)

\* The connector of tenant "t-1" has created the database, and the
\* connector of tenant "t_1" has found it and uses it.
C40_TwoTenantsOneDatabase ==
    \E p, q \in Clients :
        /\ Finished(p, "init") /\ ret[p].kind = "value"
        /\ op[p].tenant = <<"t", "-", "1">>
        /\ Finished(q, "init") /\ ret[q].kind = "value" /\ "db_used" \in log[q]
        /\ op[q].tenant = <<"t", "_", "1">>
        /\ DbName(op[q].tenant) \in dbs

====
